---- MODULE Spec2Model ----
(***************************************************************************)
(* Camera-session lifecycle of webcam-ts: Webcam (core/webcam.ts), Stream  *)
(* and Capture (core/stream.ts, core/capture.ts) and the platform media    *)
(* API they drive.  Asynchronous methods are split at their await points;  *)
(* everything between two awaits is one atomic step.                       *)
(***************************************************************************)
EXTENDS Integers, Sequences, FiniteSets, TLC

\* ------------------------------------------------------------------ bounds
MaxStarts == 2          \* start() invocations in one behaviour of Spec
MaxAcquireStarts == 1   \* start() invocations in one behaviour of AcquireSpec
MaxListLen == 2         \* longest preferredResolutions list
MaxControls == 2         \* torch/zoom/focus calls in one behaviour of ControlSpec
MaxProbes == 2           \* Device calls in one behaviour of DeviceSpec
MaxCaptures == 3        \* CaptureEngine calls in one behaviour
MaxSnapshots == 2       \* state snapshots handed out in one behaviour of ObserverSpec

\* ------------------------------------------------------- program constants
DEFAULT_WIDTH == 1280
DEFAULT_HEIGHT == 720

\* ------------------------------------------------------------- values
NoErr == [name |-> "null"]
NoStream == [kind |-> "null"]
NoRes == [label |-> "null"]
NoConfig == [kind |-> "undefined"]
NoPrefs == [kind |-> "none"]
AbsentPrefs == [kind |-> "absent"]
NoArg == [kind |-> "undefined"]
NoRet == [op |-> "none"]
NoReq == [kind |-> "none"]

FHD == [label |-> "FHD", width |-> 1920, height |-> 1080]
HD == [label |-> "HD", width |-> 1280, height |-> 720]
BAD == [label |-> "BAD", width |-> 0, height |-> 720]
Resolutions == {FHD, HD, BAD}

\* Resolution lists of length 0..MaxListLen, each entry named once.
ResLists ==
    UNION {{l \in [1..n -> Resolutions] : \A i, j \in 1..n : l[i] = l[j] => i = j} :
           n \in 0..MaxListLen}

SinglePrefs == {[kind |-> "single", res |-> r] : r \in Resolutions}
ListPrefs == {[kind |-> "list", items |-> l] : l \in ResLists}

\* The configurations the acquisition specification starts sessions with:
\* every resolution preference, rendered into a video element.
StartArgs ==
    {NoArg} \cup
    {[kind |-> "config", prefs |-> p, videoElement |-> v, enableMirror |-> "absent"] :
        p \in {AbsentPrefs} \cup SinglePrefs \cup ListPrefs, v \in {TRUE}}

\* The configurations the lifecycle specification starts sessions with.
LifecycleArgs ==
    {NoArg} \cup
    {[kind |-> "config", prefs |-> p, videoElement |-> v, enableMirror |-> m] :
        p \in {AbsentPrefs, [kind |-> "single", res |-> HD],
               [kind |-> "list", items |-> <<FHD, HD>>],
               [kind |-> "list", items |-> <<>>]},
        v \in BOOLEAN, m \in {"absent", "true", "false"}}

\* A rejection with the name OverconstrainedError that is not an Error
\* instance: the OverconstrainedError of an engine whose interface does not
\* inherit from Error, or a plain object carrying that name.
OverconstrainedObject == "OverconstrainedError (not an Error)"

\* What a rejected getUserMedia promise can carry: a DOMException of one of
\* these names, the value undefined, or the named value that is not an Error.
PlatformFailures ==
    {"NotAllowedError", "NotFoundError", "NotReadableError",
     "OverconstrainedError", "AbortError", "undefined", OverconstrainedObject}

\* The rejections the acquisition specification draws from: a mapped name,
\* the over-constrained name, an unmapped name and the values that are not
\* Error instances.
AcquireFailures ==
    {"NotAllowedError", "OverconstrainedError", "AbortError", "undefined",
     OverconstrainedObject}

\* The rejections the lifecycle specification draws from.
LifecycleFailures == {"NotAllowedError", "OverconstrainedError"}

CallSlots == IF MaxStarts > MaxAcquireStarts THEN MaxStarts ELSE MaxAcquireStarts

\* Identities of the streams the platform can hand out in one behaviour.
StreamIds == 1..(CallSlots + MaxProbes)

\* Sets of exact dimensions a camera can deliver.
PlatformProfiles == {{<<1280, 720>>}, {<<1280, 720>>, <<1920, 1080>>}}

\* A DOMException the platform throws or rejects with; isError is what
\* "value instanceof Error" gives.
PlatformError(n) ==
    [name |-> n, code |-> "none", message |-> "platform", original |-> NoErr,
     isError |-> TRUE]
\* A stream delivered by getUserMedia; width and height are its track settings.
MediaStream(id, w, h) == [kind |-> "MediaStream", id |-> id, width |-> w, height |-> h]

\* ------------------------------------------------------------- errors
\* new WebcamError(message, code, originalError)
WebcamError(message, code, original) ==
    [name |-> "WebcamError", code |-> code, message |-> message, original |-> original,
     isError |-> TRUE]

\* new Error(message)
PlainError(message) ==
    [name |-> "Error", code |-> "none", message |-> message, original |-> NoErr,
     isError |-> TRUE]

\* error instanceof Error
IsError(e) == e # NoErr /\ e.isError

\* error instanceof WebcamError
IsWebcamError(e) == e.name = "WebcamError"

VARIABLES
    status,             \* Webcam.state.status
    stateActiveStream,  \* Webcam.state.activeStream
    stateError,         \* Webcam.state.error
    config,             \* Webcam.config
    hasVideoElement,    \* Webcam.videoElement is set
    srcObject,          \* videoElement.srcObject
    styleMirror,        \* videoElement.style.transform = "scaleX(-1)"
    listener,           \* devicechange listener registered
    streamActive,       \* Stream.activeStream
    calls,              \* in-flight start() calls
    nstarts,            \* start() invocations so far
    supported,          \* platform: exact dimensions the camera delivers
    srcObjectTyped,     \* platform: the srcObject setter accepts only a MediaStream or null
    live,               \* platform: streams with an unstopped track
    nextStream,         \* platform: identity of the next stream
    canvas,             \* Capture.canvas (width, height) or none
    hasContext,         \* Capture.context is set
    reusableImageData,  \* Capture.reusableImageData
    cachedDimensions,   \* Capture.cachedDimensions
    cachedScale,        \* Capture.cachedScale (tenths)
    cachedMirror,       \* Capture.cachedMirror
    mirrorCanvas,       \* Capture.mirrorCanvas (width, height) or none
    ctxTransform,       \* transform currently set on Capture.context
    disposed,           \* Capture.dispose() has run
    nextBuffer,         \* platform: identity of the next ImageData object
    ncaptures,          \* CaptureEngine calls so far
    captures,           \* in-flight captureImage/captureImageBitmap calls
    trackStops,         \* platform: track.stop() calls received, per stream
    zoomLevel,          \* Webcam.state.zoomLevel (tenths)
    focusMode,          \* Webcam.state.focusMode
    torchEnabled,       \* Webcam.state.torchEnabled
    controls,           \* in-flight setTorch/setZoom/setFocusMode calls
    ncontrols,          \* setTorch/setZoom/setFocusMode invocations so far
    napply,             \* platform: track.applyConstraints calls received
    probes,             \* in-flight Device calls
    nprobes,            \* Device invocations so far
    observed,           \* the objects getState() has created and the references observers hold
    cb,                 \* callbacks invoked by the latest step, in order
    ret                 \* outcome of the operation the latest step completed

webcamVars == <<status, stateActiveStream, stateError, config, hasVideoElement,
                srcObject, styleMirror, listener>>
streamVars == <<streamActive, calls, nstarts>>
platformVars == <<supported, srcObjectTyped, live, nextStream, trackStops>>
controlVars == <<zoomLevel, focusMode, torchEnabled, controls, ncontrols, napply>>
deviceVars == <<probes, nprobes>>
captureVars == <<canvas, hasContext, reusableImageData, cachedDimensions,
                 cachedScale, cachedMirror, mirrorCanvas, ctxTransform, disposed,
                 nextBuffer, ncaptures, captures>>
vars == <<webcamVars, streamVars, platformVars, captureVars, controlVars, deviceVars,
          observed, cb, ret>>

NoCanvas == [kind |-> "null"]
Canvas(w, h) == [kind |-> "canvas", width |-> w, height |-> h]
NoImageData == [kind |-> "null"]
NoVideo == [kind |-> "null"]
NoCrop == [kind |-> "none"]
Identity == [flip |-> FALSE, tx |-> 0]
Undefined == -1

IdleCall == [pc |-> "idle"]
\* No object created by getState() yet, no reference handed out.
NoSnapshot == [objects |-> <<>>, held |-> <<>>]
\* A state field that was never assigned.
Unset == [kind |-> "undefined"]

\* ------------------------------------------------------------- Stream
\* Stream._buildConstraints for a configuration whose preferredResolutions is
\* a single Resolution or missing: validation, then exact or ideal dimensions.
BuildConstraints(prefs) ==
    IF prefs.kind = "single"
    THEN IF prefs.res.width = 0 \/ prefs.res.height = 0
         THEN [ok |-> FALSE,
               error |-> WebcamError("Invalid resolution", "INVALID_CONFIG", NoErr)]
         ELSE [ok |-> TRUE,
               req |-> [kind |-> "exact", width |-> prefs.res.width,
                        height |-> prefs.res.height]]
    ELSE [ok |-> TRUE,
          req |-> [kind |-> "ideal", width |-> DEFAULT_WIDTH, height |-> DEFAULT_HEIGHT]]

\* _handleStartError without its OverconstrainedError branch.
HandleStartErrorNoOverconstrained(error) ==
    LET code == IF error.name = "NotAllowedError" THEN "PERMISSION_DENIED"
                ELSE IF error.name = "NotFoundError" THEN "DEVICE_NOT_FOUND"
                ELSE IF error.name = "NotReadableError" THEN "DEVICE_BUSY"
                ELSE "UNKNOWN_ERROR"
    IN WebcamError("Failed to start camera", code, error)

\* Stream._handleStartError: platform error name to taxonomy code.
HandleStartError(error) ==
    LET code == IF error.name = "NotAllowedError" THEN "PERMISSION_DENIED"
                ELSE IF error.name = "NotFoundError" THEN "DEVICE_NOT_FOUND"
                ELSE IF error.name = "NotReadableError" THEN "DEVICE_BUSY"
                ELSE IF error.name = "OverconstrainedError" THEN "OVERCONSTRAINED"
                ELSE "UNKNOWN_ERROR"
        baseMsg == IF code = "PERMISSION_DENIED" THEN "Camera access denied"
                   ELSE IF code = "DEVICE_NOT_FOUND" THEN "Camera device not found"
                   ELSE IF code = "DEVICE_BUSY" THEN "Camera is already in use"
                   ELSE IF code = "OVERCONSTRAINED" THEN "Camera constraints not satisfied"
                   ELSE "Failed to start camera"
    IN WebcamError(baseMsg, code, error)

\* The inner catch of the candidate loop: what lastError becomes.
CatchCandidate(lastError, error) ==
    IF IsError(error) THEN error ELSE PlainError("Failed to get media stream")

\* usedResolution taken from the head of the list.
UsedResolutionHead(items, i) == items[1]

\* usedResolution once the candidate at position i has been acquired.
UsedResolution(items, i) == items[i]

\* A start() call at the entry of Stream.startStream.
NewCall(prefs) ==
    [pc |-> "new", prefs |-> prefs, idx |-> 0, req |-> NoReq,
     lastError |-> NoErr, attempted |-> <<>>,
     result |-> NoStream, error |-> NoErr, lastRejection |-> NoReq]

\* A start() call suspended at await this._buildConstraints(...) for the
\* candidate at position idx (0 on the path without a list).
Building(call, idx, lastError) ==
    [call EXCEPT !.pc = "building", !.idx = idx, !.req = NoReq, !.lastError = lastError]

\* A start() call suspended at await getUserMedia(constraints).
Acquiring(call, req) ==
    [call EXCEPT !.pc = "acquiring", !.req = req, !.attempted = Append(@, call.idx)]

\* Stream.startStream has thrown; Webcam.start is still suspended at its await.
Rejected(call, idx, lastError, error) ==
    [call EXCEPT !.pc = "rejected", !.idx = idx, !.req = NoReq,
                 !.lastError = lastError, !.error = error]

\* Stream.startStream has returned; Webcam.start is still suspended at its await.
Resolved(call, result) ==
    [call EXCEPT !.pc = "resolved", !.req = NoReq, !.result = result]

\* The head of the candidate loop at position i: the call of
\* _buildConstraints for the next candidate, or the throw after the loop
\* when no candidate is left.
ContinueLoop(call, i, lastError) ==
    IF i <= Len(call.prefs.items)
    THEN Building(call, i, lastError)
    ELSE Rejected(call, i, lastError,
                  HandleStartError(IF lastError # NoErr THEN lastError
                                   ELSE PlainError("No resolution worked")))

\* Stream.startStream up to its first await.
StartStreamBegin(prefs) ==
    IF prefs.kind = "list"
    THEN ContinueLoop(NewCall(prefs), 1, NoErr)
    ELSE Building(NewCall(prefs), 0, NoErr)

\* The configuration _buildConstraints was called with: the candidate in
\* place of the list, or the configuration's own preference.
BuildInput(call) ==
    IF call.prefs.kind = "list"
    THEN [kind |-> "single", res |-> call.prefs.items[call.idx]]
    ELSE call.prefs

\* Stream.startStream resumed with the outcome of _buildConstraints: the
\* platform request, or the catch of a candidate whose constraints cannot be
\* built.
StartStreamBuilt(call) ==
    LET b == BuildConstraints(BuildInput(call))
    IN IF b.ok THEN Acquiring(call, b.req)
       ELSE IF call.prefs.kind = "list"
       THEN ContinueLoop(call, call.idx + 1, CatchCandidate(call.lastError, b.error))
       ELSE Rejected(call, call.idx, call.lastError, HandleStartError(b.error))

\* Stream.startStream resumed with a stream from getUserMedia.
StartStreamResolve(call, stream) ==
    Resolved(call,
        [kind |-> "StartResult", stream |-> stream,
         usedResolution |->
            IF call.prefs.kind = "list" THEN UsedResolution(call.prefs.items, call.idx)
            ELSE IF call.prefs.kind = "single" THEN call.prefs.res
            ELSE NoRes])

\* A candidate loop that asks again for the candidate that was rejected.
StartStreamRejectRetry(call, error) ==
    IF call.prefs.kind = "list"
    THEN [call EXCEPT !.lastError = CatchCandidate(call.lastError, error)]
    ELSE Rejected(call, call.idx, call.lastError, HandleStartError(error))

\* Stream.startStream resumed with a getUserMedia rejection: the inner catch
\* and the next turn of the loop, or the outer catch.
StartStreamReject(call, error) ==
    IF call.prefs.kind = "list"
    THEN ContinueLoop(call, call.idx + 1, CatchCandidate(call.lastError, error))
    ELSE Rejected(call, call.idx, call.lastError, HandleStartError(error))

\* A failure path that drops the stream held from an earlier start.
HeldAfterFailureCleared(held) == NoStream

\* Stream.activeStream after a rejected getUserMedia: this.activeStream is
\* assigned only after a stream was obtained, the catch paths leave it.
HeldAfterFailure(held) == held

\* What getUserMedia may do with a request on this platform.
PlatformOutcomes(req) ==
    PlatformFailures \cup
    (IF req.kind = "ideal" \/ <<req.width, req.height>> \in supported
     THEN {"ok"} ELSE {})

\* The stream a successful getUserMedia delivers for a request.
Delivered(req) == MediaStream(nextStream, req.width, req.height)

\* The value a failed getUserMedia rejects with.
Rejection(n) ==
    IF n = "undefined"
    THEN [name |-> "undefined", code |-> "none", message |-> "rejected", original |-> NoErr,
          isError |-> FALSE]
    ELSE IF n = OverconstrainedObject
    THEN [name |-> "OverconstrainedError", code |-> "none", message |-> "rejected",
          original |-> NoErr, isError |-> FALSE]
    ELSE PlatformError(n)

\* A release that drops the reference without stopping the tracks.
StopStreamKeepLive(held, liveSet) == liveSet

\* Stream.stopStream: the live set once the held stream's tracks are stopped.
StopStream(held, liveSet) == IF held # NoStream THEN liveSet \ {held.id} ELSE liveSet

\* Stream.stopStream: the track.stop() calls the platform has received once
\* every track of the held stream was stopped.
StopTracks(held, stops) ==
    IF held # NoStream THEN [stops EXCEPT ![held.id] = @ + 1] ELSE stops

\* ------------------------------------------------------------- Webcam
\* { ...this.config, ...config }
MergeConfig(old, arg) ==
    IF arg = NoArg THEN old
    ELSE LET base == IF old = NoConfig
                     THEN [kind |-> "config", prefs |-> NoPrefs, enableMirror |-> FALSE]
                     ELSE old
         IN [kind |-> "config",
             prefs |-> IF arg.prefs.kind = "absent" THEN base.prefs ELSE arg.prefs,
             enableMirror |-> IF arg.enableMirror = "absent" THEN base.enableMirror
                              ELSE arg.enableMirror = "true"]

\* A catch of Webcam.start that stores no error.
StartCatchDropped(error) == NoErr

\* this.config?.callback?.(...): the callbacks that fire under configuration
\* cfg; without a configuration object there is none to call.
Callbacks(cfg, names) == IF cfg = NoConfig THEN <<>> ELSE names

\* A _setError that notifies the state change before the error.
SetErrorCallbacksSwapped == <<"onStateChange", "onError">>

\* Webcam._setError: config.onError(error), then _notifyStateChange().
SetErrorCallbacks == <<"onError", "onStateChange">>

\* The catch of Webcam.start: the error that is stored and rethrown.
StartCatch(error) ==
    IF IsWebcamError(error) THEN error
    ELSE WebcamError("Start failed", "UNKNOWN_ERROR", error)

\* Webcam.getCurrentResolution on a given state.activeStream.  settings are
\* the track settings of a real MediaStream; an object without
\* getVideoTracks makes the call throw a TypeError.
GetCurrentResolution(active) ==
    IF active = NoStream THEN [kind |-> "null"]
    ELSE IF active.kind # "MediaStream" THEN [kind |-> "throws", name |-> "TypeError"]
    ELSE [kind |-> "resolution",
          res |-> [label |-> <<active.width, "x", active.height>>,
                   width |-> active.width, height |-> active.height]]

Init ==
    /\ status = "idle"
    /\ stateActiveStream = NoStream
    /\ stateError = NoErr
    /\ config \in {NoConfig, [kind |-> "config", prefs |-> NoPrefs, enableMirror |-> FALSE]}
    /\ hasVideoElement \in (IF config = NoConfig THEN {FALSE} ELSE BOOLEAN)
    /\ srcObject = NoStream
    /\ styleMirror = FALSE
    /\ listener = TRUE
    /\ streamActive = NoStream
    /\ calls = [c \in 1..CallSlots |-> IdleCall]
    /\ nstarts = 0
    /\ supported \in PlatformProfiles
    /\ srcObjectTyped \in BOOLEAN
    /\ live = {}
    /\ nextStream = 1
    /\ trackStops = [i \in StreamIds |-> 0]
    /\ zoomLevel = Unset
    /\ focusMode = Unset
    /\ torchEnabled = Unset
    /\ controls = [c \in 1..MaxControls |-> IdleCall]
    /\ ncontrols = 0
    /\ napply = 0
    /\ probes = [c \in 1..MaxProbes |-> IdleCall]
    /\ nprobes = 0
    /\ observed = NoSnapshot
    /\ canvas = Canvas(300, 150)
    /\ hasContext = TRUE
    /\ reusableImageData = NoImageData
    /\ cachedDimensions = <<0, 0>>
    /\ cachedScale = 10
    /\ cachedMirror = FALSE
    /\ mirrorCanvas = NoCanvas
    /\ ctxTransform = Identity
    /\ disposed = FALSE
    /\ nextBuffer = 1
    /\ ncaptures = 0
    /\ captures = [c \in 1..MaxCaptures |-> IdleCall]
    /\ cb = <<>>
    /\ ret = NoRet

\* A missing-configuration error that carries no configuration code.
ConfigRequiredUncoded ==
    WebcamError("Configuration is required", "UNKNOWN_ERROR", NoErr)

\* if (!this.config) throw new WebcamError(..., INVALID_CONFIG)
ConfigRequired ==
    WebcamError("Configuration is required", "INVALID_CONFIG", NoErr)

\* Webcam.start(arg) up to its first await: configuration merge, the
\* missing-configuration throw, the transition to initializing and
\* Stream.startStream up to its await of _buildConstraints (or, for an empty
\* list, its throw).
WebcamStart(arg, limit) ==
    /\ UNCHANGED observed
    /\ nstarts < limit
    /\ nstarts' = nstarts + 1
    /\ config' = MergeConfig(config, arg)
    /\ hasVideoElement' = (hasVideoElement \/ (arg # NoArg /\ arg.videoElement))
    /\ IF config' = NoConfig
       THEN /\ ret' = [op |-> "start", ok |-> FALSE, entered |-> FALSE, call |-> nstarts',
                       error |-> ConfigRequired]
            /\ cb' = <<>>
            /\ UNCHANGED <<status, stateError, calls>>
       ELSE /\ status' = "initializing"
            /\ stateError' = NoErr
            /\ cb' = <<"onStateChange">>
            /\ calls' = [calls EXCEPT ![nstarts'] = StartStreamBegin(config'.prefs)]
            /\ ret' = [op |-> "startBegin", call |-> nstarts']
    /\ UNCHANGED <<stateActiveStream, srcObject, styleMirror, listener, streamActive,
                   platformVars, captureVars, controlVars, deviceVars>>

\* The promise of _buildConstraints settles for call c: Stream.startStream
\* issues the platform request, or handles the INVALID_CONFIG rejection and
\* runs on to its next await or its throw.
BuildConstraintsSettles(c) ==
    /\ UNCHANGED observed
    /\ calls[c].pc = "building"
    /\ calls' = [calls EXCEPT ![c] = StartStreamBuilt(@)]
    /\ cb' = <<>>
    /\ ret' = [op |-> "buildConstraints", call |-> c, frame |-> calls[c]]
    /\ UNCHANGED <<webcamVars, streamActive, nstarts, platformVars, captureVars,
                   controlVars, deviceVars>>

\* getUserMedia settles for call c and Stream.startStream runs on to its
\* next await, its return or its throw.
GetUserMediaSettles(c, outcome) ==
    /\ UNCHANGED observed
    /\ calls[c].pc = "acquiring"
    /\ outcome \in PlatformOutcomes(calls[c].req)
    /\ IF outcome = "ok"
       THEN /\ calls' = [calls EXCEPT ![c] = StartStreamResolve(@, Delivered(calls[c].req))]
            /\ streamActive' = Delivered(calls[c].req)
            /\ live' = live \cup {nextStream}
            /\ nextStream' = nextStream + 1
       ELSE /\ calls' = [calls EXCEPT ![c] =
                            [StartStreamReject(@, Rejection(outcome)) EXCEPT
                                !.lastRejection = [idx |-> calls[c].idx, name |-> outcome,
                                                  value |-> Rejection(outcome)]]]
            /\ streamActive' = HeldAfterFailure(streamActive)
            /\ UNCHANGED <<live, nextStream>>
    /\ cb' = <<>>
    /\ ret' = [op |-> "getUserMedia", call |-> c, outcome |-> outcome, frame |-> calls[c]]
    /\ UNCHANGED <<webcamVars, nstarts, supported, srcObjectTyped, trackStops,
                   captureVars, controlVars, deviceVars>>

\* videoElement.srcObject = value succeeds: HTMLMediaElement.srcObject takes a
\* MediaStream or null and throws a TypeError for any other value; the
\* element of a DOM emulation stores whatever it is given.
SrcObjectAccepts(value) ==
    ~srcObjectTyped \/ value = NoStream \/ value.kind = "MediaStream"

\* The TypeError of a refused srcObject assignment.
SrcObjectTypeError ==
    [name |-> "TypeError", code |-> "none", message |-> "srcObject", original |-> NoErr,
     isError |-> TRUE]

\* Webcam.start resumed with the value startStream returned: the value is
\* stored as state.activeStream and assigned to videoElement.srcObject; an
\* assignment that throws is caught by the catch of start (_setError,
\* rethrow).
WebcamStartResolved(c) ==
    /\ UNCHANGED observed
    /\ calls[c].pc = "resolved"
    /\ stateActiveStream' = calls[c].result
    /\ IF hasVideoElement /\ ~SrcObjectAccepts(calls[c].result)
       THEN /\ stateError' = StartCatch(SrcObjectTypeError)
            /\ status' = "error"
            /\ cb' = Callbacks(config, SetErrorCallbacks)
            /\ ret' = [op |-> "start", ok |-> FALSE, entered |-> TRUE, call |-> c,
                       error |-> StartCatch(SrcObjectTypeError), frame |-> calls[c]]
            /\ UNCHANGED <<srcObject, styleMirror>>
       ELSE /\ srcObject' = IF hasVideoElement THEN calls[c].result ELSE srcObject
            /\ styleMirror' = IF hasVideoElement /\ config.enableMirror THEN TRUE
                              ELSE styleMirror
            /\ status' = "ready"
            /\ stateError' = NoErr
            /\ cb' = <<"onStateChange", "onStreamStart">>
            /\ ret' = [op |-> "start", ok |-> TRUE, entered |-> TRUE, call |-> c,
                       error |-> NoErr, frame |-> calls[c]]
    /\ calls' = [calls EXCEPT ![c] = IdleCall]
    /\ UNCHANGED <<config, hasVideoElement, listener, streamActive, nstarts,
                   platformVars, captureVars, controlVars, deviceVars>>

\* Webcam.start resumed with the error startStream threw: _setError, rethrow.
WebcamStartRejected(c) ==
    /\ UNCHANGED observed
    /\ calls[c].pc = "rejected"
    /\ stateError' = StartCatch(calls[c].error)
    /\ status' = "error"
    /\ cb' = Callbacks(config, SetErrorCallbacks)
    /\ ret' = [op |-> "start", ok |-> FALSE, entered |-> TRUE, call |-> c,
               error |-> StartCatch(calls[c].error), frame |-> calls[c]]
    /\ calls' = [calls EXCEPT ![c] = IdleCall]
    /\ UNCHANGED <<stateActiveStream, config, hasVideoElement, srcObject, styleMirror,
                   listener, streamActive, nstarts, platformVars, captureVars,
                   controlVars, deviceVars>>

\* Webcam.stop()
WebcamStop ==
    /\ UNCHANGED observed
    /\ live' = StopStream(streamActive, live)
    /\ streamActive' = NoStream
    /\ stateActiveStream' = NoStream
    /\ srcObject' = NoStream
    /\ status' = "idle"
    /\ stateError' = NoErr
    /\ cb' = Callbacks(config, <<"onStateChange", "onStreamStop">>)
    /\ trackStops' = StopTracks(streamActive, trackStops)
    /\ ret' = [op |-> "stop", held |-> streamActive]
    /\ UNCHANGED <<config, hasVideoElement, styleMirror, listener, calls, nstarts,
                   supported, srcObjectTyped, nextStream, captureVars, controlVars, deviceVars>>

\* Webcam.dispose(): stop(), Capture.dispose(), removeDeviceChangeListener().
WebcamDispose ==
    /\ UNCHANGED observed
    /\ live' = StopStream(streamActive, live)
    /\ streamActive' = NoStream
    /\ stateActiveStream' = NoStream
    /\ srcObject' = NoStream
    /\ status' = "idle"
    /\ stateError' = NoErr
    /\ canvas' = NoCanvas
    /\ hasContext' = FALSE
    /\ mirrorCanvas' = NoCanvas
    /\ reusableImageData' = NoImageData
    /\ cachedDimensions' = <<0, 0>>
    /\ disposed' = TRUE
    /\ listener' = FALSE
    /\ cb' = Callbacks(config, <<"onStateChange", "onStreamStop">>)
    /\ trackStops' = StopTracks(streamActive, trackStops)
    /\ ret' = [op |-> "dispose", held |-> streamActive]
    /\ UNCHANGED <<config, hasVideoElement, styleMirror, calls, nstarts,
                   supported, srcObjectTyped, nextStream, cachedScale, cachedMirror,
                   ctxTransform, nextBuffer, ncaptures, captures, controlVars,
                   deviceVars>>

\* The fields of the object this.state as they are now.  activeStream and
\* error are references to the value start stored and to the error object;
\* the session writes to neither, nor to the permissions object created
\* with the state, which is left out.  Whether the tracks of the stream
\* behind activeStream are live is the platform's state (live), not a field.
StateFields ==
    [status |-> status, activeStream |-> stateActiveStream, error |-> stateError,
     zoomLevel |-> zoomLevel, focusMode |-> focusMode, torchEnabled |-> torchEnabled]

\* A reference to the object this.state.
StateRef == [object |-> "state"]

\* A reference to the n-th object a getState() call created.
SnapshotRef(n) == [object |-> "snapshot", id |-> n]

\* A getState that hands out the state object itself.
GetStateAliased == [ref |-> StateRef, created |-> <<>>]

\* Webcam.getState: { ...this.state } creates an object, copies the fields
\* of this.state into it and returns the reference to it.
GetState ==
    [ref |-> SnapshotRef(Len(observed.objects) + 1), created |-> <<StateFields>>]

\* What reading the fields of the object behind a reference gives now.
Observe(ref) == IF ref = StateRef THEN StateFields ELSE observed.objects[ref.id]

\* getState() called by a caller, or by _notifyStateChange for the
\* onStateChange callback of the step just taken; the observer keeps the
\* reference it is given.
WebcamGetState ==
    /\ Len(observed.held) < MaxSnapshots
    /\ observed' = [objects |-> observed.objects \o GetState.created,
                    held |-> Append(observed.held, GetState.ref)]
    /\ cb' = <<>>
    /\ ret' = [op |-> "getState", notified |-> \E i \in 1..Len(cb) : cb[i] = "onStateChange"]
    /\ UNCHANGED <<webcamVars, streamVars, platformVars, captureVars, controlVars,
                   deviceVars>>

\* ------------------------------------------------------------- controls
Number(n) == [kind |-> "number", v |-> n]
Boolean(b) == [kind |-> "boolean", v |-> b]
String(t) == [kind |-> "string", v |-> t]

\* Zoom levels handed to setZoom, in tenths: 0.5, 2.0, 3.0.
ZoomInputs == {5, 20, 30}

\* The calls of setZoom, setTorch and setFocusMode, each with the constraint
\* field it patches.
ControlInputs ==
    {[op |-> "setZoom", field |-> "zoom", value |-> Number(z)] : z \in ZoomInputs} \cup
    {[op |-> "setTorch", field |-> "torch", value |-> Boolean(b)] : b \in BOOLEAN} \cup
    {[op |-> "setFocusMode", field |-> "focusMode", value |-> String("continuous")]}

\* What a track.applyConstraints promise settles with.
ApplyOutcomes == {"ok", "OverconstrainedError", "InvalidStateError", "undefined"}

\* A zoom check that only refuses negative levels.
ZoomRejectedBelowZero(req) == req.op = "setZoom" /\ req.value.v < 0

\* Webcam.setZoom: zoom < 1
ZoomRejected(req) == req.op = "setZoom" /\ req.value.v < 10

\* The catch of Stream.applyConstraints around track.applyConstraints.
ApplyConstraintsError(outcome) ==
    IF IsError(Rejection(outcome)) /\ Rejection(outcome).name = "OverconstrainedError"
    THEN WebcamError("Cannot apply constraints: not supported by device",
                     "CONSTRAINT_ERROR", Rejection(outcome))
    ELSE WebcamError("Failed to apply constraints", "STREAM_ERROR", Rejection(outcome))

\* The catch of setTorch, setZoom and setFocusMode: the error that is rethrown.
ControlCatch(op, error) ==
    IF IsWebcamError(error) THEN error
    ELSE WebcamError(IF op = "setTorch" THEN "Failed to set torch"
                     ELSE IF op = "setZoom" THEN "Failed to set zoom"
                     ELSE "Failed to set focus mode", "STREAM_ERROR", error)

\* A control call that leaves the session state as it found it.
ControlStateStale(req, old) == old

\* this.state.torchEnabled / zoomLevel / focusMode = value
ControlState(req, old) ==
    IF req.op = "setTorch" THEN [old EXCEPT !.torchEnabled = req.value]
    ELSE IF req.op = "setZoom" THEN [old EXCEPT !.zoomLevel = req.value]
    ELSE [old EXCEPT !.focusMode = req.value]

\* A control call that writes its value before the platform has answered.
ControlOutcomeStateEager(outcome, req, old) == ControlState(req, old)

\* The state fields once applyConstraints has settled: the assignment sits
\* after the await inside the try, so a rejection skips it.
ControlOutcomeState(outcome, req, old) ==
    IF outcome = "ok" THEN ControlState(req, old) ELSE old

\* setTorch / setZoom / setFocusMode up to the await of track.applyConstraints:
\* the zoom check, the checks of Stream.applyConstraints (acquired streams
\* carry one video track) and the platform call.
ControlBegin(req) ==
    /\ UNCHANGED observed
    /\ ncontrols < MaxControls
    /\ ncontrols' = ncontrols + 1
    /\ cb' = <<>>
    /\ UNCHANGED <<webcamVars, streamVars, platformVars, captureVars, deviceVars,
                   zoomLevel, focusMode, torchEnabled>>
    /\ IF ZoomRejected(req)
       THEN /\ ret' = [op |-> req.op, ok |-> FALSE, request |-> req, call |-> ncontrols',
                       status |-> status, held |-> streamActive, outcome |-> "none",
                       error |-> WebcamError("Zoom level must be greater than or equal to 1",
                                             "INVALID_CONFIG", NoErr)]
            /\ UNCHANGED <<controls, napply>>
       ELSE IF streamActive = NoStream
       THEN /\ ret' = [op |-> req.op, ok |-> FALSE, request |-> req, call |-> ncontrols',
                       status |-> status, held |-> streamActive, outcome |-> "none",
                       error |-> ControlCatch(req.op,
                                    WebcamError("No active stream to apply constraints",
                                                "STREAM_ERROR", NoErr))]
            /\ UNCHANGED <<controls, napply>>
       ELSE /\ napply' = napply + 1
            /\ controls' = [controls EXCEPT ![ncontrols'] =
                               [pc |-> "applying", request |-> req, status |-> status,
                                held |-> streamActive, applyIndex |-> napply']]
            /\ ret' = [op |-> "applyConstraints", request |-> req, call |-> ncontrols']

\* track.applyConstraints settles for control call c and the call runs on to
\* its return or its throw.
ControlSettles(c, outcome) ==
    /\ UNCHANGED observed
    /\ controls[c].pc = "applying"
    /\ outcome \in ApplyOutcomes
    /\ controls' = [controls EXCEPT ![c] = IdleCall]
    /\ UNCHANGED <<webcamVars, streamVars, platformVars, captureVars, deviceVars,
                   ncontrols, napply>>
    /\ LET f == controls[c]
           old == [zoomLevel |-> zoomLevel, focusMode |-> focusMode,
                   torchEnabled |-> torchEnabled]
           new == ControlOutcomeState(outcome, f.request, old)
       IN /\ zoomLevel' = new.zoomLevel
          /\ focusMode' = new.focusMode
          /\ torchEnabled' = new.torchEnabled
          /\ cb' = IF outcome = "ok" THEN Callbacks(config, <<"onStateChange">>) ELSE <<>>
          /\ ret' = [op |-> f.request.op, ok |-> outcome = "ok", request |-> f.request,
                     call |-> c, status |-> f.status, held |-> f.held,
                     outcome |-> outcome, applyIndex |-> f.applyIndex,
                     snapshot |-> new,
                     error |-> IF outcome = "ok" THEN NoErr
                               ELSE ControlCatch(f.request.op, ApplyConstraintsError(outcome))]

\* ------------------------------------------------------------- Device
\* options of requestPermissions: the default { video: true, audio: false }
\* and a request for neither kind, which getUserMedia always rejects.
PermissionOptions == {[video |-> TRUE, audio |-> FALSE], [video |-> FALSE, audio |-> FALSE]}

\* What navigator.permissions.query settles with; "throws" also stands for a
\* platform without the Permissions API.
QueryOutcomes == {"granted", "denied", "prompt", "throws"}

\* What the track of a probe stream reports: capabilities with or without
\* the width/height ranges and the zoom and torch entries, settings with or
\* without dimensions (0 when absent).
CapabilityProfiles ==
    {[widthMax |-> 1920, heightMax |-> 1080, hasZoom |-> TRUE, hasTorch |-> TRUE],
     [widthMax |-> 0, heightMax |-> 0, hasZoom |-> FALSE, hasTorch |-> FALSE]}
SettingsProfiles == {[width |-> 1280, height |-> 720], [width |-> 0, height |-> 0]}

\* The platform calls of getDeviceCapabilities that can throw once the probe
\* stream is open.
ProbeFaults == {"none", "getCapabilities", "getSettings"}

\* getUserMedia outcomes of a Device call.
ProbeOutcomes == {"ok", "NotAllowedError", "undefined"}

\* A catch that reports a failed query as denied.
PermissionOfDenied(outcome) == IF outcome = "throws" THEN "denied" ELSE outcome

\* permissions[kind] = state, or "prompt" in the catch
PermissionOf(outcome) == IF outcome = "throws" THEN "prompt" ELSE outcome

\* A transient stream whose tracks are left running.
TransientStreamLeft(stream, liveSet) == liveSet \cup {stream.id}

\* stream.getTracks().forEach((track) => track.stop()) on the stream a Device
\* call has just opened.
TransientStream(stream, liveSet) == StopStream(stream, liveSet \cup {stream.id})

\* a || b || c on numbers
OrElse(a, b, c) == IF a # 0 THEN a ELSE IF b # 0 THEN b ELSE c

\* The DeviceCapability object getDeviceCapabilities returns.
CapabilityDescriptor(capabilities, settings) ==
    [maxWidth |-> OrElse(capabilities.widthMax, settings.width, 1920),
     maxHeight |-> OrElse(capabilities.heightMax, settings.height, 1080),
     hasZoom |-> capabilities.hasZoom,
     hasTorch |-> capabilities.hasTorch]

\* The catch of getDeviceCapabilities.
CapabilitiesError(error) ==
    WebcamError(IF ~IsError(error) THEN "Failed to get device capabilities: Unknown error"
                ELSE IF error.name = "TypeError"
                THEN "Failed to get device capabilities: not a function"
                ELSE "Failed to get device capabilities: platform",
                "DEVICES_ERROR", error)

ProbeTypeError ==
    [name |-> "TypeError", code |-> "none", message |-> "not a function", original |-> NoErr,
     isError |-> TRUE]

\* Device.requestPermissions(options) up to the await of getUserMedia.
RequestPermissionsBegin(options) ==
    /\ UNCHANGED observed
    /\ nprobes < MaxProbes
    /\ nprobes' = nprobes + 1
    /\ probes' = [probes EXCEPT ![nprobes'] =
                     [pc |-> "acquiring", kind |-> "requestPermissions",
                      options |-> options, opened |-> 0]]
    /\ cb' = <<>>
    /\ ret' = [op |-> "requestPermissionsBegin", call |-> nprobes']
    /\ UNCHANGED <<webcamVars, streamVars, platformVars, captureVars, controlVars>>

\* Device.checkPermissions() up to the await of the camera query.
CheckPermissionsBegin ==
    /\ UNCHANGED observed
    /\ nprobes < MaxProbes
    /\ nprobes' = nprobes + 1
    /\ probes' = [probes EXCEPT ![nprobes'] =
                     [pc |-> "queryCamera", kind |-> "checkPermissions", opened |-> 0]]
    /\ cb' = <<>>
    /\ ret' = [op |-> "checkPermissionsBegin", call |-> nprobes']
    /\ UNCHANGED <<webcamVars, streamVars, platformVars, captureVars, controlVars>>

\* Device.getDeviceCapabilities(deviceId) up to the await of getUserMedia.
GetDeviceCapabilitiesBegin ==
    /\ UNCHANGED observed
    /\ nprobes < MaxProbes
    /\ nprobes' = nprobes + 1
    /\ probes' = [probes EXCEPT ![nprobes'] =
                     [pc |-> "acquiring", kind |-> "getDeviceCapabilities", opened |-> 0]]
    /\ cb' = <<>>
    /\ ret' = [op |-> "getDeviceCapabilitiesBegin", call |-> nprobes']
    /\ UNCHANGED <<webcamVars, streamVars, platformVars, captureVars, controlVars>>

\* getUserMedia settles for requestPermissions call c: the stream is stopped
\* at once, a rejection is swallowed, and checkPermissions begins.
RequestPermissionsAcquired(c, outcome) ==
    /\ UNCHANGED observed
    /\ probes[c].pc = "acquiring"
    /\ probes[c].kind = "requestPermissions"
    /\ outcome \in ProbeOutcomes
    /\ outcome = "ok" => probes[c].options.video \/ probes[c].options.audio
    /\ IF outcome = "ok"
       THEN LET stream == MediaStream(nextStream, DEFAULT_WIDTH, DEFAULT_HEIGHT)
            IN /\ live' = TransientStream(stream, live)
               /\ trackStops' = StopTracks(stream, trackStops)
               /\ nextStream' = nextStream + 1
               /\ probes' = [probes EXCEPT ![c].pc = "queryCamera", ![c].opened = nextStream]
       ELSE /\ probes' = [probes EXCEPT ![c].pc = "queryCamera"]
            /\ UNCHANGED <<live, trackStops, nextStream>>
    /\ cb' = <<>>
    /\ ret' = [op |-> "getUserMedia", call |-> c, outcome |-> outcome, frame |-> probes[c]]
    /\ UNCHANGED <<webcamVars, streamVars, supported, srcObjectTyped, captureVars, controlVars, nprobes>>

\* A navigator.permissions.query of checkPermissions settles for call c: the
\* camera query first, then the microphone query and the return.
PermissionQuerySettles(c, outcome) ==
    /\ UNCHANGED observed
    /\ probes[c].pc \in {"queryCamera", "queryMicrophone"}
    /\ outcome \in QueryOutcomes
    /\ cb' = <<>>
    /\ UNCHANGED <<webcamVars, streamVars, platformVars, captureVars, controlVars, nprobes>>
    /\ IF probes[c].pc = "queryCamera"
       THEN /\ probes' = [probes EXCEPT ![c] =
                   [pc |-> "queryMicrophone", kind |-> probes[c].kind,
                    opened |-> probes[c].opened, cameraQuery |-> outcome,
                    camera |-> PermissionOf(outcome)]]
            /\ ret' = [op |-> "permissionsQuery", call |-> c, name |-> "camera",
                       outcome |-> outcome]
       ELSE /\ probes' = [probes EXCEPT ![c] = IdleCall]
            /\ ret' = [op |-> probes[c].kind, ok |-> TRUE, call |-> c, error |-> NoErr,
                       opened |-> probes[c].opened,
                       queries |-> [camera |-> probes[c].cameraQuery,
                                    microphone |-> outcome],
                       permissions |-> [camera |-> probes[c].camera,
                                        microphone |-> PermissionOf(outcome)]]

\* getUserMedia settles for getDeviceCapabilities call c and the call runs to
\* its return or its throw; fault names the track method that throws.
GetDeviceCapabilitiesSettles(c, outcome, capabilities, settings, fault) ==
    /\ UNCHANGED observed
    /\ probes[c].pc = "acquiring"
    /\ probes[c].kind = "getDeviceCapabilities"
    /\ outcome \in ProbeOutcomes
    /\ fault \in ProbeFaults
    /\ probes' = [probes EXCEPT ![c] = IdleCall]
    /\ cb' = <<>>
    /\ UNCHANGED <<webcamVars, streamVars, supported, srcObjectTyped, captureVars, controlVars, nprobes>>
    /\ IF outcome # "ok"
       THEN /\ ret' = [op |-> "getDeviceCapabilities", ok |-> FALSE, call |-> c,
                       opened |-> 0, cause |-> Rejection(outcome),
                       error |-> CapabilitiesError(Rejection(outcome))]
            /\ UNCHANGED <<live, trackStops, nextStream>>
       ELSE LET stream == MediaStream(nextStream, DEFAULT_WIDTH, DEFAULT_HEIGHT)
            IN /\ nextStream' = nextStream + 1
               /\ IF fault # "none"
                  THEN /\ live' = live \cup {stream.id}
                       /\ UNCHANGED trackStops
                       /\ ret' = [op |-> "getDeviceCapabilities", ok |-> FALSE, call |-> c,
                                  opened |-> stream.id, cause |-> ProbeTypeError,
                                  error |-> CapabilitiesError(ProbeTypeError)]
                  ELSE /\ live' = TransientStream(stream, live)
                       /\ trackStops' = StopTracks(stream, trackStops)
                       /\ ret' = [op |-> "getDeviceCapabilities", ok |-> TRUE, call |-> c,
                                  opened |-> stream.id, error |-> NoErr,
                                  descriptor |-> CapabilityDescriptor(capabilities, settings)]

\* ------------------------------------------------- device-change listener
Camera(id) == [kind |-> "videoinput", deviceId |-> id]
Microphone(id) == [kind |-> "audioinput", deviceId |-> id]

\* Lists enumerateDevices can resolve with.
DeviceLists == {<<>>, <<Camera(1)>>, <<Microphone(1), Camera(1), Camera(2)>>}

\* What enumerateDevices settles with: a list, or a rejection.
EnumerateOutcomes ==
    {[ok |-> TRUE, devices |-> l] : l \in DeviceLists} \cup
    {[ok |-> FALSE, name |-> "NotAllowedError"]}

\* An enumeration that hands every device on.
VideoDevicesUnfiltered(devices) == devices

\* Device.getVideoDevices: devices.filter((device) => device.kind === "videoinput")
VideoDevices(devices) == SelectSeq(devices, LAMBDA d : d.kind = "videoinput")

\* The catch of Device.getVideoDevices.
EnumerateError(error) == WebcamError("Failed to enumerate devices", "DEVICES_ERROR", error)

\* The catch of the device-change listener: the error handed to onError.
ListenerCatch(error) ==
    IF IsWebcamError(error) THEN error
    ELSE WebcamError("Device change detection failed", "DEVICES_ERROR", error)

\* The platform dispatches devicechange to the registered listener, which
\* runs up to the await of enumerateDevices.
DeviceChangeNotified ==
    /\ UNCHANGED observed
    /\ listener
    /\ nprobes < MaxProbes
    /\ nprobes' = nprobes + 1
    /\ probes' = [probes EXCEPT ![nprobes'] =
                     [pc |-> "enumerating", kind |-> "deviceChange", opened |-> 0]]
    /\ cb' = <<>>
    /\ ret' = [op |-> "deviceChangeBegin", call |-> nprobes']
    /\ UNCHANGED <<webcamVars, streamVars, platformVars, captureVars, controlVars>>

\* enumerateDevices settles for listener run c, which hands the video devices
\* to onDeviceChange or the typed failure to onError, and returns.
EnumerateDevicesSettles(c, outcome) ==
    /\ UNCHANGED observed
    /\ probes[c].pc = "enumerating"
    /\ outcome \in EnumerateOutcomes
    /\ probes' = [probes EXCEPT ![c] = IdleCall]
    /\ UNCHANGED <<webcamVars, streamVars, platformVars, captureVars, controlVars, nprobes>>
    /\ IF outcome.ok
       THEN /\ cb' = IF config = NoConfig THEN <<>> ELSE <<"onDeviceChange">>
            /\ ret' = [op |-> "deviceChange", ok |-> TRUE, call |-> c, thrown |-> FALSE,
                       enumerated |-> outcome.devices, listening |-> listener,
                       devices |-> VideoDevices(outcome.devices), error |-> NoErr]
       ELSE /\ cb' = IF config = NoConfig THEN <<>> ELSE <<"onError">>
            /\ ret' = [op |-> "deviceChange", ok |-> FALSE, call |-> c, thrown |-> FALSE,
                       cause |-> PlatformError(outcome.name), listening |-> listener,
                       error |-> ListenerCatch(EnumerateError(PlatformError(outcome.name)))]

\* ------------------------------------------------------------- Capture
\* scale option (tenths) clamped to [0.1, 2.0]; 1.0 when undefined.
ClampScale(scale) ==
    IF scale = Undefined THEN 10
    ELSE IF scale < 1 THEN 1 ELSE IF scale > 20 THEN 20 ELSE scale

\* sourceDim * scale is a product of IEEE-754 doubles.  Of the scales
\* 0.1 .. 2.0 in tenths only 0.7 and 1.4 have a double so far below the
\* decimal that a product which is a whole number N in decimal arithmetic is
\* rounded to the double below N; it is when N lies in the upper quarter of
\* its binade (90 * 0.7 is 62.99999999999999).  1 in that case, else 0.
DoubleShortfall(sourceDim, scale) ==
    IF scale \in {7, 14} /\ sourceDim > 0 /\ (sourceDim * scale) % 10 = 0
    THEN LET n == (sourceDim * scale) \div 10
             p == CHOOSE q \in {2 ^ e : e \in 0..15} : q <= n /\ n < 2 * q
         IN IF 4 * n > 7 * p THEN 1 ELSE 0
    ELSE 0

\* Math.floor(sourceDim * scale), scale in tenths.
OutputDim(sourceDim, scale) ==
    (sourceDim * scale) \div 10 - DoubleShortfall(sourceDim, scale)

SourceWidth(video, crop) == IF crop # NoCrop THEN crop.width ELSE video.videoWidth
SourceHeight(video, crop) == IF crop # NoCrop THEN crop.height ELSE video.videoHeight

\* A readiness check that only looks for an absent element.
NotReadyAbsentOnly(video) == video = NoVideo

\* !videoElement || videoElement.readyState < 2
NotReady(video) == video = NoVideo \/ video.readyState < 2

VideoInputs ==
    {NoVideo,
     [kind |-> "video", readyState |-> 1, videoWidth |-> 0, videoHeight |-> 0],
     [kind |-> "video", readyState |-> 4, videoWidth |-> 640, videoHeight |-> 480]}
CropInputs == {NoCrop, [kind |-> "crop", x |-> 10, y |-> 20, width |-> 90, height |-> 55]}
\* Requested scales in tenths: omitted, 0.0 (below the clamp), 0.7 and 2.5
\* (above the clamp).
ScaleInputs == {Undefined, 0, 7, 25}
CaptureInputs ==
    [scale : ScaleInputs, mirror : BOOLEAN, crop : CropInputs]
DefaultOptions == [scale |-> Undefined, mirror |-> FALSE, crop |-> NoCrop]

\* (video, options) pairs of a capture call: every request on a source that
\* has a frame, the default request on one that has not.
CaptureCalls ==
    {<<v, o>> \in VideoInputs \X CaptureInputs : NotReady(v) => o = DefaultOptions}

\* A resize that keeps the pooled ImageData.
ResizeCheckKeepBuffer(width, height, scale) ==
    IF (cachedDimensions # <<width, height>> \/ cachedScale # scale) /\ canvas # NoCanvas
    THEN [canvas |-> Canvas(width, height), cachedDimensions |-> <<width, height>>,
          cachedScale |-> scale, reusableImageData |-> reusableImageData,
          ctxTransform |-> Identity]
    ELSE [canvas |-> canvas, cachedDimensions |-> cachedDimensions,
          cachedScale |-> cachedScale, reusableImageData |-> reusableImageData,
          ctxTransform |-> ctxTransform]

\* The pooled state of a Capture after the resize check of captureImageData
\* and captureImage (Capture.resizeCanvas when dimensions or scale changed).
\* Assigning canvas.width resets the 2D context to the identity transform.
ResizeCheck(width, height, scale) ==
    IF (cachedDimensions # <<width, height>> \/ cachedScale # scale) /\ canvas # NoCanvas
    THEN [canvas |-> Canvas(width, height), cachedDimensions |-> <<width, height>>,
          cachedScale |-> scale, reusableImageData |-> NoImageData,
          ctxTransform |-> Identity]
    ELSE [canvas |-> canvas, cachedDimensions |-> cachedDimensions,
          cachedScale |-> cachedScale, reusableImageData |-> reusableImageData,
          ctxTransform |-> ctxTransform]

\* ctx.setTransform(mirror ? -1 : 1, 0, 0, 1, mirror ? width : 0, 0)
MirrorTransform(mirror, width) == [flip |-> mirror, tx |-> IF mirror THEN width ELSE 0]

\* The TypeError of a method call on the null context of a disposed engine.
NullContextError ==
    [name |-> "TypeError", code |-> "none", message |-> "null context", original |-> NoErr,
     isError |-> TRUE]

\* What ctx.drawImage throws when it fails: a TypeError on a null context,
\* the platform's error otherwise.
DrawImageError == IF ~hasContext THEN NullContextError ELSE PlainError("platform")

CaptureError(op, video, error) ==
    [op |-> op, ok |-> FALSE, error |-> error, afterDispose |-> disposed,
     source |-> video]

\* The preview handle of a captureImage call: none before
\* URL.createObjectURL, open after it.
NoObjectURL == "none"
CreateObjectURL == "open"

\* A base64 failure that leaves the handle as it is.
RevokeObjectURLSkipped(url) == url

\* URL.revokeObjectURL(url)
RevokeObjectURL(url) == "revoked"

\* A captureImage call made on the engine itself.
EngineCaller == [kind |-> "engine"]

\* The error a captureImage call throws before its first await, with the
\* state of the preview handle the call leaves behind and the caller it is
\* thrown to.
CaptureImageError(video, error, url, caller) ==
    [op |-> "captureImage", ok |-> FALSE, error |-> error, afterDispose |-> disposed,
     source |-> video, url |-> url, caller |-> caller]

\* A captureImage or captureImageBitmap call suspended at an await: the
\* locals it resumes with.  afterDispose tells whether the call was made on
\* a disposed engine.
Suspended(pc, op, video, options, width, height, t, includeBase64, caller) ==
    [pc |-> pc, op |-> op, source |-> video, request |-> options,
     width |-> width, height |-> height, flipped |-> t.flip, tx |-> t.tx,
     base64 |-> includeBase64, caller |-> caller, url |-> NoObjectURL,
     afterDispose |-> disposed]

\* The error a suspended captureImage call throws when it is resumed.
CaptureImageFailed(f, error, url) ==
    [op |-> "captureImage", ok |-> FALSE, error |-> error,
     afterDispose |-> f.afterDispose, source |-> f.source, url |-> url,
     caller |-> f.caller]

\* The result a captureImage call returns.
CaptureImageResult(f, url) ==
    [op |-> "captureImage", ok |-> TRUE, error |-> NoErr,
     afterDispose |-> f.afterDispose, width |-> f.width, height |-> f.height,
     flipped |-> f.flipped, tx |-> f.tx, url |-> url, base64 |-> f.base64,
     caller |-> f.caller, request |-> f.request, source |-> f.source]

\* Capture.captureImageData(video, options); fault names the platform call
\* that throws during it ("draw": drawImage), "none" when none does.
CaptureImageData(video, options, fault) ==
    /\ UNCHANGED observed
    /\ ncaptures < MaxCaptures
    /\ ncaptures' = ncaptures + 1
    /\ cb' = <<>>
    /\ UNCHANGED <<webcamVars, streamVars, platformVars, hasContext, mirrorCanvas, disposed,
                   captures, controlVars, deviceVars>>
    /\ IF NotReady(video)
       THEN /\ ret' = CaptureError("captureImageData", video,
                        WebcamError("Video element is not ready for capture",
                                    "VIDEO_ELEMENT_NOT_SET", NoErr))
            /\ UNCHANGED <<canvas, reusableImageData, cachedDimensions, cachedScale,
                           cachedMirror, ctxTransform, nextBuffer>>
       ELSE LET scale == ClampScale(options.scale)
                width == OutputDim(SourceWidth(video, options.crop), scale)
                height == OutputDim(SourceHeight(video, options.crop), scale)
                r == ResizeCheck(width, height, scale)
            IN /\ canvas' = r.canvas
               /\ cachedDimensions' = r.cachedDimensions
               /\ cachedScale' = r.cachedScale
               /\ IF options.mirror # cachedMirror /\ ~hasContext
                  THEN \* setTransform on a null context
                       /\ ret' = CaptureError("captureImageData", video, NullContextError)
                       /\ reusableImageData' = r.reusableImageData
                       /\ UNCHANGED <<cachedMirror, ctxTransform, nextBuffer>>
                  ELSE LET t == IF options.mirror # cachedMirror
                                THEN MirrorTransform(options.mirror, width)
                                ELSE r.ctxTransform
                       IN /\ cachedMirror' = options.mirror
                          /\ ctxTransform' = t
                          /\ IF ~hasContext \/ fault = "draw"
                             THEN /\ ret' = CaptureError("captureImageData", video,
                                              WebcamError("Failed to draw video to canvas",
                                                          "CAPTURE_FAILED", DrawImageError))
                                  /\ reusableImageData' = r.reusableImageData
                                  /\ UNCHANGED nextBuffer
                             ELSE LET fresh == r.reusableImageData = NoImageData
                                      data == IF fresh
                                              THEN [kind |-> "ImageData", id |-> nextBuffer,
                                                    width |-> width, height |-> height,
                                                    frame |-> ncaptures']
                                              ELSE r.reusableImageData
                                  IN /\ reusableImageData' = data
                                     /\ nextBuffer' = IF fresh THEN nextBuffer + 1 ELSE nextBuffer
                                     /\ ret' = [op |-> "captureImageData", ok |-> TRUE,
                                                error |-> NoErr, afterDispose |-> disposed,
                                                width |-> width, height |-> height,
                                                flipped |-> t.flip, tx |-> t.tx,
                                                imageData |-> data, frame |-> ncaptures',
                                                request |-> options, source |-> video]

\* Capture.captureImage(video, options) called by caller, up to its first
\* await: the readiness check, the resize, the mirror transform, the draw
\* and the canvas.toBlob request.  fault names the platform call that throws
\* during it ("draw": drawImage), "none" when none does.
CaptureImageVia(video, options, includeBase64, fault, caller) ==
    /\ UNCHANGED observed
    /\ ncaptures < MaxCaptures
    /\ ncaptures' = ncaptures + 1
    /\ cb' = <<>>
    /\ UNCHANGED <<webcamVars, streamVars, platformVars, hasContext, mirrorCanvas, disposed,
                   nextBuffer, controlVars, deviceVars>>
    /\ IF NotReady(video)
       THEN /\ ret' = CaptureImageError(video,
                        WebcamError("Video element is not ready for capture",
                                    "VIDEO_ELEMENT_NOT_SET", NoErr),
                        NoObjectURL, caller)
            /\ UNCHANGED <<canvas, reusableImageData, cachedDimensions, cachedScale,
                           cachedMirror, ctxTransform, captures>>
       ELSE LET scale == ClampScale(options.scale)
                width == OutputDim(SourceWidth(video, options.crop), scale)
                height == OutputDim(SourceHeight(video, options.crop), scale)
                r == ResizeCheck(width, height, scale)
            IN /\ canvas' = r.canvas
               /\ cachedDimensions' = r.cachedDimensions
               /\ cachedScale' = r.cachedScale
               /\ reusableImageData' = r.reusableImageData
               /\ IF options.mirror # cachedMirror /\ ~hasContext
                  THEN /\ ret' = CaptureImageError(video, NullContextError,
                                                   NoObjectURL, caller)
                       /\ UNCHANGED <<cachedMirror, ctxTransform, captures>>
                  ELSE LET t == IF options.mirror # cachedMirror
                                THEN MirrorTransform(options.mirror, width)
                                ELSE r.ctxTransform
                       IN /\ cachedMirror' = options.mirror
                          /\ ctxTransform' = t
                          /\ IF ~hasContext \/ fault = "draw"
                             THEN /\ ret' = CaptureImageError(video,
                                              WebcamError("Failed to draw video to canvas",
                                                          "CAPTURE_FAILED", DrawImageError),
                                              NoObjectURL, caller)
                                  /\ UNCHANGED captures
                             ELSE IF r.canvas = NoCanvas
                             THEN \* the promise executor rejects at once
                                  /\ ret' = CaptureImageError(video,
                                              WebcamError("Failed to convert canvas to blob",
                                                          "CAPTURE_FAILED", PlainError("blob")),
                                              NoObjectURL, caller)
                                  /\ UNCHANGED captures
                             ELSE /\ captures' = [captures EXCEPT ![ncaptures'] =
                                        Suspended("toBlob", "captureImage", video, options,
                                                  width, height, t, includeBase64, caller)]
                                  /\ ret' = [op |-> "captureBegin", call |-> ncaptures']

\* Capture.captureImage(video, options) called on the engine.
CaptureImage(video, options, includeBase64, fault) ==
    CaptureImageVia(video, options, includeBase64, fault, EngineCaller)

\* The canvas.toBlob callback of call c runs, with a blob or with null, and
\* captureImage runs on: URL.createObjectURL, then the FileReader request
\* when base64 was asked for, the return otherwise.
ToBlobSettles(c, outcome) ==
    /\ UNCHANGED observed
    /\ captures[c].pc = "toBlob"
    /\ cb' = <<>>
    /\ IF outcome = "null"
       THEN /\ ret' = CaptureImageFailed(captures[c],
                        WebcamError("Failed to convert canvas to blob",
                                    "CAPTURE_FAILED", PlainError("blob")),
                        NoObjectURL)
            /\ captures' = [captures EXCEPT ![c] = IdleCall]
       ELSE IF captures[c].base64
       THEN /\ ret' = [op |-> "toBlob", call |-> c]
            /\ captures' = [captures EXCEPT ![c] =
                              [@ EXCEPT !.pc = "reading", !.url = CreateObjectURL]]
       ELSE /\ ret' = CaptureImageResult(captures[c], CreateObjectURL)
            /\ captures' = [captures EXCEPT ![c] = IdleCall]
    /\ UNCHANGED <<webcamVars, streamVars, platformVars, canvas, hasContext,
                   reusableImageData, cachedDimensions, cachedScale, cachedMirror,
                   mirrorCanvas, ctxTransform, disposed, nextBuffer, ncaptures,
                   controlVars, deviceVars>>

\* reader.error || new Error("FileReader error"): what reader.onerror rejects
\* with.  The File API sets reader.error before it fires the error event.
FileReaderError(readerError) ==
    IF readerError # NoErr THEN readerError ELSE PlainError("FileReader error")

\* The FileReader of call c ends, with the data URL or with its error set
\* (a NotReadableError), and captureImage returns, or revokes its object URL
\* and throws.
FileReaderSettles(c, outcome) ==
    /\ UNCHANGED observed
    /\ captures[c].pc = "reading"
    /\ cb' = <<>>
    /\ ret' = IF outcome = "error"
              THEN CaptureImageFailed(captures[c],
                       WebcamError("Failed to convert blob to base64",
                                   "CAPTURE_FAILED",
                                   FileReaderError(PlatformError("NotReadableError"))),
                       RevokeObjectURL(captures[c].url))
              ELSE CaptureImageResult(captures[c], captures[c].url)
    /\ captures' = [captures EXCEPT ![c] = IdleCall]
    /\ UNCHANGED <<webcamVars, streamVars, platformVars, canvas, hasContext,
                   reusableImageData, cachedDimensions, cachedScale, cachedMirror,
                   mirrorCanvas, ctxTransform, disposed, nextBuffer, ncaptures,
                   controlVars, deviceVars>>

\* Capture.captureImageBitmap(video, options) up to its await of
\* createImageBitmap; fault names the platform call that throws during it
\* ("draw": drawImage on the mirror canvas), "none" when none does.
CaptureImageBitmap(video, options, fault) ==
    /\ UNCHANGED observed
    /\ ncaptures < MaxCaptures
    /\ ncaptures' = ncaptures + 1
    /\ cb' = <<>>
    /\ UNCHANGED <<webcamVars, streamVars, platformVars, canvas, hasContext,
                   reusableImageData, cachedDimensions, cachedScale, cachedMirror,
                   ctxTransform, disposed, nextBuffer, controlVars, deviceVars>>
    /\ IF NotReady(video)
       THEN /\ ret' = CaptureError("captureImageBitmap", video,
                        WebcamError("Video element is not ready for capture",
                                    "VIDEO_ELEMENT_NOT_SET", NoErr))
            /\ UNCHANGED <<mirrorCanvas, captures>>
       ELSE LET scale == ClampScale(options.scale)
                targetWidth == OutputDim(SourceWidth(video, options.crop), scale)
                targetHeight == OutputDim(SourceHeight(video, options.crop), scale)
                suspended == Suspended("createImageBitmap", "captureImageBitmap",
                                 video, options, targetWidth, targetHeight,
                                 MirrorTransform(options.mirror, targetWidth),
                                 FALSE, EngineCaller)
            IN IF ~options.mirror
               THEN \* fast path: createImageBitmap straight from the video
                    /\ captures' = [captures EXCEPT ![ncaptures'] = suspended]
                    /\ ret' = [op |-> "captureBegin", call |-> ncaptures']
                    /\ UNCHANGED mirrorCanvas
               ELSE \* mirror path: lazily created, dimension-cached mirror canvas
                    /\ mirrorCanvas' = Canvas(targetWidth, targetHeight)
                    /\ IF fault = "draw"
                       THEN /\ ret' = CaptureError("captureImageBitmap", video,
                                        WebcamError("Failed to create ImageBitmap",
                                                    "CAPTURE_FAILED", PlainError("platform")))
                            /\ UNCHANGED captures
                       ELSE /\ captures' = [captures EXCEPT ![ncaptures'] = suspended]
                            /\ ret' = [op |-> "captureBegin", call |-> ncaptures']

\* The createImageBitmap promise of call c settles and captureImageBitmap
\* returns the bitmap, or wraps the rejection and throws.
CreateImageBitmapSettles(c, outcome) ==
    /\ UNCHANGED observed
    /\ captures[c].pc = "createImageBitmap"
    /\ cb' = <<>>
    /\ ret' = LET f == captures[c]
              IN IF outcome = "rejected"
                 THEN [op |-> "captureImageBitmap", ok |-> FALSE,
                       error |-> WebcamError("Failed to create ImageBitmap",
                                             "CAPTURE_FAILED", PlainError("platform")),
                       afterDispose |-> f.afterDispose, source |-> f.source]
                 ELSE [op |-> "captureImageBitmap", ok |-> TRUE, error |-> NoErr,
                       afterDispose |-> f.afterDispose,
                       width |-> f.width, height |-> f.height,
                       flipped |-> f.flipped, tx |-> f.tx,
                       request |-> f.request, source |-> f.source]
    /\ captures' = [captures EXCEPT ![c] = IdleCall]
    /\ UNCHANGED <<webcamVars, streamVars, platformVars, canvas, hasContext,
                   reusableImageData, cachedDimensions, cachedScale, cachedMirror,
                   mirrorCanvas, ctxTransform, disposed, nextBuffer, ncaptures,
                   controlVars, deviceVars>>

\* Capture.dispose()
CaptureDispose ==
    /\ UNCHANGED observed
    /\ canvas' = NoCanvas
    /\ hasContext' = FALSE
    /\ mirrorCanvas' = NoCanvas
    /\ reusableImageData' = NoImageData
    /\ cachedDimensions' = <<0, 0>>
    /\ disposed' = TRUE
    /\ cb' = <<>>
    /\ ret' = [op |-> "captureDispose"]
    /\ UNCHANGED <<webcamVars, streamVars, platformVars, cachedScale, cachedMirror,
                   ctxTransform, nextBuffer, ncaptures, captures, controlVars,
                   deviceVars>>

\* ------------------------------------------------------ session capture
\* Webcam.setMirror(mirror)
WebcamSetMirror(mirror) ==
    /\ UNCHANGED observed
    /\ styleMirror' = IF hasVideoElement THEN mirror ELSE styleMirror
    /\ cb' = <<>>
    /\ ret' = [op |-> "setMirror", mirror |-> mirror]
    /\ UNCHANGED <<status, stateActiveStream, stateError, config, hasVideoElement,
                   srcObject, listener, streamVars, platformVars, captureVars,
                   controlVars, deviceVars>>

\* Webcam.getMirror()
GetMirror == hasVideoElement /\ styleMirror

\* A mirror choice that lets the session's setting override an explicit false.
ResolveMirrorFalsy(request, sessionMirror) ==
    IF request.mirror # Unset /\ request.mirror.v THEN TRUE ELSE sessionMirror

\* options.mirror !== undefined ? options.mirror : this.getMirror()
ResolveMirror(request, sessionMirror) ==
    IF request.mirror # Unset THEN request.mirror.v ELSE sessionMirror

\* Capture requests made on a session; mirror may be left undefined.
SessionRequests ==
    [scale : {Undefined, 7}, mirror : {Unset, Boolean(TRUE), Boolean(FALSE)},
     crop : {NoCrop}]

\* States the session's video element can be in: it has a frame only while
\* a source is attached to it.
SessionVideos ==
    {v \in VideoInputs \ {NoVideo} : v.readyState >= 2 => srcObject # NoStream}

\* A captureImage call made through Webcam.captureImage.
SessionCaller(request, passed) ==
    [kind |-> "session", request |-> request, sessionMirror |-> GetMirror,
     passed |-> passed]

\* Webcam.captureImage(request) while the video element is in state video.
WebcamCaptureImage(video, request, includeBase64, fault) ==
    IF ~hasVideoElement
    THEN /\ ret' = CaptureImageError(NoVideo,
                       WebcamError("No video element attached",
                                   "VIDEO_ELEMENT_NOT_SET", NoErr),
                       NoObjectURL, SessionCaller(request, Unset))
         /\ cb' = <<>>
         /\ UNCHANGED <<webcamVars, streamVars, platformVars, captureVars, controlVars,
                        deviceVars, observed>>
    ELSE LET passed == [scale |-> request.scale, crop |-> request.crop,
                        mirror |-> ResolveMirror(request, GetMirror)]
         IN CaptureImageVia(video, passed, includeBase64, fault,
                            SessionCaller(request, passed))

\* The start() calls that have not returned.
StartsInFlight == {c \in 1..CallSlots : calls[c].pc # "idle"}

\* A session started, also while an earlier start is in flight (a further
\* start waits until at most one call is in flight), stopped and disposed at
\* any moment.
Next ==
    \/ /\ \A c, d \in StartsInFlight : c = d
       /\ \E arg \in LifecycleArgs : WebcamStart(arg, MaxStarts)
    \/ \E c \in 1..CallSlots : BuildConstraintsSettles(c)
    \/ \E c \in 1..CallSlots, o \in LifecycleFailures \cup {"ok"} : GetUserMediaSettles(c, o)
    \/ \E c \in 1..CallSlots : WebcamStartResolved(c)
    \/ \E c \in 1..CallSlots : WebcamStartRejected(c)
    \/ WebcamStop
    \/ WebcamDispose

\* A camera that can deliver both resolutions; the platform may still
\* refuse any request.
LifecycleInit == Init /\ supported = {<<1280, 720>>, <<1920, 1080>>}

Spec == LifecycleInit /\ [][Next]_vars

\* One session driven through every resolution configuration and the
\* rejections of AcquireFailures.  A start made while another has not
\* returned takes one of the lifecycle configurations.
AcquireNext ==
    \/ \E arg \in StartArgs :
          /\ StartsInFlight = {} \/ arg \in LifecycleArgs
          /\ WebcamStart(arg, MaxAcquireStarts)
    \/ \E c \in 1..CallSlots : BuildConstraintsSettles(c)
    \/ \E c \in 1..CallSlots, o \in AcquireFailures \cup {"ok"} : GetUserMediaSettles(c, o)
    \/ \E c \in 1..CallSlots : WebcamStartResolved(c)
    \/ \E c \in 1..CallSlots : WebcamStartRejected(c)
    \/ WebcamStop
    \/ WebcamDispose

AcquireSpec == Init /\ [][AcquireNext]_vars
\* The captureImage and captureImageBitmap calls that have not returned.
InFlight == {c \in 1..MaxCaptures : captures[c].pc # "idle"}

\* The (video, options) pairs of a call made while another is in flight.
OverlapCalls ==
    {vo \in CaptureCalls : ~NotReady(vo[1]) /\ vo[2].crop = NoCrop /\ ~vo[2].mirror
                              /\ vo[2].scale \in {Undefined, 0}}

\* The calls of a caller that lets at most two captures overlap: any call
\* while none is in flight, an overlapping call while one is.
AsyncCalls ==
    IF InFlight = {} THEN CaptureCalls
    ELSE IF \A c, d \in InFlight : c = d THEN OverlapCalls
    ELSE {}

\* The captureImageData calls of that caller.
SyncCalls == IF InFlight = {} THEN CaptureCalls ELSE OverlapCalls

\* A CaptureEngine driven directly with video sources and capture requests,
\* by a caller that may start a second capture, read a frame or dispose the
\* engine while a capture is in flight.
CaptureNext ==
    \/ \E vo \in SyncCalls, f \in {"none", "draw"} : CaptureImageData(vo[1], vo[2], f)
    \/ \E vo \in AsyncCalls, i \in BOOLEAN, f \in {"none", "draw"} :
           CaptureImage(vo[1], vo[2], i, f)
    \/ \E vo \in AsyncCalls, f \in {"none", "draw"} :
           CaptureImageBitmap(vo[1], vo[2], f)
    \/ \E c \in 1..MaxCaptures, o \in {"blob", "null"} : ToBlobSettles(c, o)
    \/ \E c \in 1..MaxCaptures, o \in {"ok", "error"} : FileReaderSettles(c, o)
    \/ \E c \in 1..MaxCaptures, o \in {"ok", "rejected"} : CreateImageBitmapSettles(c, o)
    \/ CaptureDispose

\* A configured session whose caller starts it and drives the torch, zoom and
\* focus controls one awaited call at a time, and stops it at any moment.
ControlNext ==
    \/ (\A c \in 1..CallSlots : calls[c].pc = "idle") /\ WebcamStart(NoArg, MaxStarts)
    \/ \E c \in 1..CallSlots : BuildConstraintsSettles(c)
    \/ \E c \in 1..CallSlots, o \in {"ok", "NotAllowedError"} : GetUserMediaSettles(c, o)
    \/ \E c \in 1..CallSlots : WebcamStartResolved(c)
    \/ \E c \in 1..CallSlots : WebcamStartRejected(c)
    \/ WebcamStop
    \/ /\ \A c \in 1..MaxControls : controls[c].pc = "idle"
       /\ \E req \in ControlInputs : ControlBegin(req)
    \/ \E c \in 1..MaxControls, o \in ApplyOutcomes : ControlSettles(c, o)

ControlInit == Init /\ config # NoConfig /\ hasVideoElement /\ supported = {<<1280, 720>>}

ControlSpec == ControlInit /\ [][ControlNext]_vars

\* The Device service of a session that is never started.
DeviceNext ==
    \/ \E o \in PermissionOptions : RequestPermissionsBegin(o)
    \/ CheckPermissionsBegin
    \/ GetDeviceCapabilitiesBegin
    \/ \E c \in 1..MaxProbes, o \in ProbeOutcomes : RequestPermissionsAcquired(c, o)
    \/ \E c \in 1..MaxProbes, o \in QueryOutcomes : PermissionQuerySettles(c, o)
    \/ \E c \in 1..MaxProbes, o \in ProbeOutcomes, k \in CapabilityProfiles,
          t \in SettingsProfiles, f \in ProbeFaults :
           GetDeviceCapabilitiesSettles(c, o, k, t, f)

DeviceInit == Init /\ config = NoConfig /\ supported = {<<1280, 720>>} /\ srcObjectTyped

DeviceSpec == DeviceInit /\ [][DeviceNext]_vars

\* A configured session that is started, stopped and disposed while the
\* platform reports device changes.
ListenerNext ==
    \/ WebcamStart(NoArg, MaxAcquireStarts)
    \/ \E c \in 1..CallSlots : BuildConstraintsSettles(c)
    \/ \E c \in 1..CallSlots, o \in {"ok", "NotAllowedError"} : GetUserMediaSettles(c, o)
    \/ \E c \in 1..CallSlots : WebcamStartResolved(c)
    \/ \E c \in 1..CallSlots : WebcamStartRejected(c)
    \/ WebcamStop
    \/ WebcamDispose
    \/ DeviceChangeNotified
    \/ \E c \in 1..MaxProbes, o \in EnumerateOutcomes : EnumerateDevicesSettles(c, o)

ListenerInit == Init /\ config # NoConfig /\ hasVideoElement /\ supported = {<<1280, 720>>}

ListenerSpec == ListenerInit /\ [][ListenerNext]_vars

\* The requests of a caller that lets at most two captures overlap: any
\* request while none is in flight, one that leaves the mirror to the
\* session while one is.
OverlapRequests ==
    IF InFlight = {} THEN SessionRequests
    ELSE IF \A c, d \in InFlight : c = d
    THEN {r \in SessionRequests : r.mirror = Unset /\ r.scale = Undefined}
    ELSE {}

\* A configured session, with or without a video element, whose caller
\* starts and stops it, sets the preview mirror and captures images, also
\* while a capture is in flight.
SessionNext ==
    \/ (\A c \in 1..CallSlots : calls[c].pc = "idle") /\ WebcamStart(NoArg, MaxAcquireStarts)
    \/ \E c \in 1..CallSlots : BuildConstraintsSettles(c)
    \/ \E c \in 1..CallSlots, o \in {"ok", "NotAllowedError"} : GetUserMediaSettles(c, o)
    \/ \E c \in 1..CallSlots : WebcamStartResolved(c)
    \/ \E c \in 1..CallSlots : WebcamStartRejected(c)
    \/ WebcamStop
    \/ \E m \in BOOLEAN : WebcamSetMirror(m)
    \/ \E v \in SessionVideos, r \in OverlapRequests, i \in BOOLEAN,
          f \in {"none", "draw"} : WebcamCaptureImage(v, r, i, f)
    \/ \E c \in 1..MaxCaptures, o \in {"blob", "null"} : ToBlobSettles(c, o)
    \/ \E c \in 1..MaxCaptures, o \in {"ok", "error"} : FileReaderSettles(c, o)

SessionInit == Init /\ config # NoConfig /\ supported = {<<1280, 720>>}

SessionSpec == SessionInit /\ [][SessionNext]_vars

\* A configured session that is started, stopped and zoomed, with failures,
\* while an observer keeps snapshots of its state.
ObserverNext ==
    \/ (\A c \in 1..CallSlots : calls[c].pc = "idle") /\ WebcamStart(NoArg, MaxAcquireStarts)
    \/ \E c \in 1..CallSlots : BuildConstraintsSettles(c)
    \/ \E c \in 1..CallSlots, o \in {"ok", "NotAllowedError"} : GetUserMediaSettles(c, o)
    \/ \E c \in 1..CallSlots : WebcamStartResolved(c)
    \/ \E c \in 1..CallSlots : WebcamStartRejected(c)
    \/ WebcamStop
    \/ /\ \A c \in 1..MaxControls : controls[c].pc = "idle"
       /\ \E req \in {r \in ControlInputs : r.op = "setZoom" /\ r.value.v <= 20} :
                ControlBegin(req)
    \/ \E c \in 1..MaxControls, o \in {"ok", "OverconstrainedError"} : ControlSettles(c, o)
    \/ WebcamGetState

ObserverInit == Init /\ config # NoConfig /\ hasVideoElement /\ supported = {<<1280, 720>>}

ObserverSpec == ObserverInit /\ [][ObserverNext]_vars

\* The configurations the liveness specification starts sessions with: no
\* preference, the empty list and the longest lists, headed by the largest
\* resolution.
LiveArgs ==
    {[kind |-> "config", prefs |-> p, videoElement |-> TRUE, enableMirror |-> "absent"] :
        p \in {AbsentPrefs} \cup
              {q \in ListPrefs : \/ q.items = <<>>
                                 \/ Len(q.items) = MaxListLen /\ q.items[1] = FHD}}

\* A session started, also while an earlier start is in flight, and stopped
\* at any moment, on a platform that grants or refuses each request.
LiveNext ==
    \/ /\ \A c, d \in StartsInFlight : c = d
       /\ \E arg \in LiveArgs : WebcamStart(arg, MaxStarts)
    \/ \E c \in 1..CallSlots : BuildConstraintsSettles(c)
    \/ \E c \in 1..CallSlots, o \in {"ok", "OverconstrainedError"} : GetUserMediaSettles(c, o)
    \/ \E c \in 1..CallSlots : WebcamStartResolved(c)
    \/ \E c \in 1..CallSlots : WebcamStartRejected(c)
    \/ WebcamStop

\* A start() call in flight is resumed: the promise it awaits settles (for
\* getUserMedia that is the platform's part) and the event loop runs the
\* continuation.
StartResumed ==
    \E c \in 1..CallSlots :
        \/ BuildConstraintsSettles(c)
        \/ \E o \in {"ok", "OverconstrainedError"} : GetUserMediaSettles(c, o)
        \/ WebcamStartResolved(c)
        \/ WebcamStartRejected(c)

\* While some call is in flight one of them is eventually resumed.
LiveFairness == WF_vars(StartResumed)

\* A session constructed with a configuration and a video element.
LiveInit == LifecycleInit /\ config # NoConfig /\ hasVideoElement

LiveSpec == LiveInit /\ [][LiveNext]_vars /\ LiveFairness

\* An engine of a session constructed without configuration.
CaptureInit == Init /\ config = NoConfig /\ supported = {<<1280, 720>>} /\ srcObjectTyped

CaptureSpec == CaptureInit /\ [][CaptureNext]_vars

\* ------------------------------------------------------------- properties
Count(seq, x) == Cardinality({i \in 1..Len(seq) : seq[i] = x})

\* The candidate at position i has a width and a height.
Valid(items, i) == items[i].width # 0 /\ items[i].height # 0

\* The positions of the valid candidates among the first n, in list order.
ValidUpTo(items, n) == SelectSeq([i \in 1..n |-> i], LAMBDA i : Valid(items, i))

\* The taxonomy code documented for a platform error name.
CodeFor(name) ==
    CASE name = "NotAllowedError" -> "PERMISSION_DENIED"
      [] name = "NotFoundError" -> "DEVICE_NOT_FOUND"
      [] name = "NotReadableError" -> "DEVICE_BUSY"
      [] name = "OverconstrainedError" -> "OVERCONSTRAINED"
      [] OTHER -> "UNKNOWN_ERROR"

StartReturned == ret.op = "start" /\ ret.entered
ListStart == StartReturned /\ ret.frame.prefs.kind = "list"

\* C1: immediately after stop() returns the status is idle, state.activeStream
\* is null, the sink is detached and no stream the session acquired has a
\* live track.
C1_StopLeavesNothingLive ==
    ret.op = "stop" =>
        /\ status = "idle"
        /\ stateActiveStream = NoStream
        /\ srcObject = NoStream
        /\ live = {}

\* C2: a start() call that fails after reaching acquisition ends with status
\* error, the typed error stored and rethrown, onError invoked, and no stream
\* attached to the sink or held in state.activeStream.
C2_FailedStartLeavesNoStream ==
    (StartReturned /\ ~ret.ok) =>
        /\ status = "error"
        /\ stateError = ret.error
        /\ IsWebcamError(ret.error)
        /\ Count(cb, "onError") = 1
        /\ srcObject = NoStream
        /\ stateActiveStream = NoStream

\* C3: when start() resolves the status is ready, state.activeStream is the
\* MediaStream that StreamManager acquired for the call, and that stream is
\* the sink's srcObject when a sink is configured.
C3_StartedSessionHoldsTheStream ==
    (StartReturned /\ ret.ok) =>
        /\ status = "ready"
        /\ stateActiveStream # NoStream
        /\ stateActiveStream = ret.frame.result.stream
        /\ hasVideoElement => srcObject = ret.frame.result.stream

\* C4: at every moment at most one stream acquired by the session has live
\* tracks, and it is the stream StreamManager holds.
C4_AtMostOneLiveStream ==
    /\ Cardinality(live) <= 1
    /\ \A s \in live : streamActive # NoStream /\ streamActive.id = s

\* A call inside or leaving startStream with a resolution list has requested
\* exactly the valid candidates among those the loop has reached, in list
\* order, each after the previous request was rejected, has one request
\* pending at most, and a resolved call returns the candidate it stopped at
\* with the stream granted for it.
FrameInOrder(f) ==
    f.prefs.kind = "list" =>
        LET items == f.prefs.items
            n == Len(items)
            k == Len(f.attempted)
            reached == IF f.pc = "building" THEN f.idx - 1
                       ELSE IF f.pc = "rejected" THEN n
                       ELSE f.idx
        IN /\ f.idx \in 1..(n + 1)
           /\ f.attempted = ValidUpTo(items, reached)
           /\ f.pc \in {"acquiring", "resolved"} =>
                /\ k >= 1 /\ f.attempted[k] = f.idx
                /\ k >= 2 => f.lastRejection.idx = f.attempted[k - 1]
           /\ f.pc = "acquiring" =>
                f.req = [kind |-> "exact", width |-> items[f.idx].width,
                         height |-> items[f.idx].height]
           /\ f.pc # "acquiring" => f.req = NoReq
           /\ f.pc = "resolved" =>
                /\ f.result.usedResolution = items[f.idx]
                /\ f.result.stream.width = items[f.idx].width
                /\ f.result.stream.height = items[f.idx].height
           /\ (f.pc \in {"building", "rejected"} /\ k >= 1) =>
                f.lastRejection.idx = f.attempted[k]
           /\ f.pc = "building" => f.idx <= n
           /\ f.pc = "rejected" => f.idx = n + 1

\* C5: with a resolution list, acquire tries the candidates strictly in list
\* order, one at a time, stops at the first that the platform grants and
\* returns that stream with that exact candidate.
C5_CandidatesInListOrder ==
    /\ \A c \in 1..CallSlots : calls[c].pc # "idle" => FrameInOrder(calls[c])
    /\ StartReturned => FrameInOrder(ret.frame)
    /\ ret.op \in {"buildConstraints", "getUserMedia"} => FrameInOrder(ret.frame)

\* C5 witness: a start resolved on its first candidate although the second
\* candidate was one the platform would also have granted.
C5_Witness ==
    /\ ListStart /\ ret.ok
    /\ Len(ret.frame.prefs.items) = 2
    /\ ret.frame.attempted = <<1>>
    /\ <<ret.frame.prefs.items[2].width, ret.frame.prefs.items[2].height>> \in supported

\* C6: after start() succeeds with a list of labelled resolutions,
\* getCurrentResolution() is the winning candidate with its own label; after
\* stop() it is null.
C6_LabelPreserved ==
    /\ (ListStart /\ ret.ok) =>
            GetCurrentResolution(stateActiveStream) =
                [kind |-> "resolution", res |-> ret.frame.prefs.items[ret.frame.idx]]
    /\ ret.op = "stop" => GetCurrentResolution(stateActiveStream) = [kind |-> "null"]

\* The failure of the last candidate of a list, as the loop's catch records it.
LastCandidateFailure(f) ==
    LET items == f.prefs.items
        n == Len(items)
    IN IF Valid(items, n)
       THEN IF f.lastRejection.value.isError
            THEN f.lastRejection.value
            ELSE PlainError("Failed to get media stream")
       ELSE WebcamError("Invalid resolution", "INVALID_CONFIG", NoErr)

\* C7: a failed candidate invokes no callback and the next candidate is
\* tried; start() fails only when every candidate has failed, with an error
\* derived from the last candidate's failure, and onError fires exactly once.
C7_OnlyExhaustionFails ==
    /\ ret.op \in {"buildConstraints", "getUserMedia"} =>
            /\ cb = <<>>
            /\ (/\ ret.frame.prefs.kind = "list"
                /\ calls[ret.call].pc \notin {"acquiring", "resolved"}) =>
                 IF ret.frame.idx < Len(ret.frame.prefs.items)
                 THEN /\ calls[ret.call].pc = "building"
                      /\ calls[ret.call].idx = ret.frame.idx + 1
                 ELSE calls[ret.call].pc = "rejected"
    /\ (ListStart /\ ~ret.ok /\ Len(ret.frame.prefs.items) > 0) =>
            LET f == ret.frame
                n == Len(f.prefs.items)
            IN /\ f.idx = n + 1
               /\ f.attempted = ValidUpTo(f.prefs.items, n)
               /\ Valid(f.prefs.items, n) => f.lastRejection.idx = n
               /\ ret.error.original = LastCandidateFailure(f)
               /\ ret.error.code = CodeFor(LastCandidateFailure(f).name)
               /\ stateError = ret.error
               /\ Count(cb, "onError") = 1

\* A start with the one-element list [FHD 1920x1080] on a platform that
\* cannot deliver 1920x1080 has returned.
UnsatisfiableFHD ==
    /\ ListStart
    /\ ret.frame.prefs.items = <<FHD>>
    /\ <<1920, 1080>> \notin supported

\* C8 as stated: the unsatisfiable single candidate fails with STREAM_FAILED,
\* without fallback, and the state becomes error.
C8_StreamFailed ==
    UnsatisfiableFHD =>
        /\ ~ret.ok
        /\ ret.error.code = "STREAM_FAILED"
        /\ ret.frame.attempted = <<1>>
        /\ status = "error"

\* C8 amended: the unsatisfiable single candidate fails after exactly one
\* attempt with a code that is never STREAM_FAILED: OVERCONSTRAINED when the
\* platform's OverconstrainedError is an Error instance, UNKNOWN_ERROR when
\* it is not; the state becomes error with that error stored.
C8_MappedCode ==
    UnsatisfiableFHD =>
        /\ ~ret.ok
        /\ ret.frame.attempted = <<1>>
        /\ ret.frame.lastRejection.idx = 1
        /\ ret.error.code # "STREAM_FAILED"
        /\ ret.frame.lastRejection.value.name = "OverconstrainedError" =>
              ret.error.code = IF ret.frame.lastRejection.value.isError
                               THEN "OVERCONSTRAINED" ELSE "UNKNOWN_ERROR"
        /\ status = "error"
        /\ stateError = ret.error

\* C8 witness: that start rejected by the platform with an OverconstrainedError
\* that is an Error instance, thrown as OVERCONSTRAINED.
C8_Witness ==
    /\ UnsatisfiableFHD
    /\ ~ret.ok
    /\ ret.frame.lastRejection.value = PlatformError("OverconstrainedError")
    /\ ret.error.code = "OVERCONSTRAINED"
    /\ status = "error"

\* C9: after dispose(), the first or a repeated one, there are no live
\* tracks, no registered device-change listener, no drawing surface and no
\* pooled buffer.
C9_DisposeLeavesNothing ==
    ret.op = "dispose" =>
        /\ live = {}
        /\ ~listener
        /\ canvas = NoCanvas
        /\ mirrorCanvas = NoCanvas
        /\ reusableImageData = NoImageData

\* C10: after CaptureEngine dispose() every capture call fails and none
\* re-creates a drawing surface or a pooled buffer.
C10_CaptureAfterDisposeFails ==
    (ret.op \in {"captureImage", "captureImageData", "captureImageBitmap"}
        /\ ret.afterDispose) =>
        /\ ~ret.ok
        /\ canvas = NoCanvas
        /\ mirrorCanvas = NoCanvas
        /\ reusableImageData = NoImageData

ControlOps == {"setTorch", "setZoom", "setFocusMode"}

\* The session state as getState() copies it for the state-change callback.
ControlSnapshot ==
    [zoomLevel |-> zoomLevel, focusMode |-> focusMode, torchEnabled |-> torchEnabled]

\* The state field a control call writes.
ControlField(req, state) ==
    IF req.op = "setTorch" THEN state.torchEnabled
    ELSE IF req.op = "setZoom" THEN state.zoomLevel
    ELSE state.focusMode

\* C11: setZoom(z) with z < 1.0 is rejected with INVALID_CONFIG before any
\* platform constraint call: the call count, the zoom level, the status and
\* the calls in flight are what they were.
C11_ZoomBelowOneRejected ==
    [][(ncontrols' = ncontrols + 1 /\ ret'.request.op = "setZoom"
            /\ ret'.request.value.v < 10) =>
        /\ ret'.op = "setZoom"
        /\ ~ret'.ok
        /\ IsWebcamError(ret'.error)
        /\ ret'.error.code = "INVALID_CONFIG"
        /\ napply' = napply
        /\ zoomLevel' = zoomLevel
        /\ status' = status
        /\ controls' = controls]_vars

\* C11 witness: setZoom(0.5) was refused on a ready session that holds a
\* stream, after an earlier control call had reached the platform.
C11_Witness ==
    /\ ret.op = "setZoom"
    /\ ret.request.value.v < 10
    /\ ret.error.code = "INVALID_CONFIG"
    /\ ret.status = "ready"
    /\ ret.held # NoStream
    /\ napply = 1

\* C12: a control call made while the session is idle or in error, or while
\* no stream is held, fails with STREAM_ERROR; an over-constrained platform
\* rejection fails with CONSTRAINT_ERROR, any other with STREAM_ERROR; a call
\* succeeds only with a stream held.
C12_ControlNeedsActiveStream ==
    (ret.op \in ControlOps /\ ~ZoomRejected(ret.request)) =>
        /\ (ret.held = NoStream \/ ret.status \in {"idle", "error"}) =>
                /\ ~ret.ok
                /\ ret.outcome = "none"
                /\ ret.error.code = "STREAM_ERROR"
        /\ ret.outcome = "OverconstrainedError" => ret.error.code = "CONSTRAINT_ERROR"
        /\ ret.outcome \notin {"none", "ok", "OverconstrainedError"} =>
                ret.error.code = "STREAM_ERROR"
        /\ ret.ok => ret.held # NoStream

\* C13: a control call reaches the platform in a step that leaves the session
\* state alone and fires nothing; when the platform call succeeds, the state
\* field then holds the requested value and the state-change callback fires
\* exactly once with a snapshot that contains it.
C13_ControlUpdatesState ==
    [][/\ napply' # napply =>
            /\ napply' = napply + 1
            /\ ControlSnapshot' = ControlSnapshot
            /\ cb' = <<>>
       /\ (controls' # controls /\ ret'.op \in ControlOps /\ ret'.ok) =>
            /\ controls[ret'.call].pc = "applying"
            /\ controls[ret'.call].applyIndex \in 1..napply
            /\ napply' = napply
            /\ ControlField(ret'.request, ControlSnapshot') = ret'.request.value
            /\ ret'.snapshot = ControlSnapshot'
            /\ cb' = <<"onStateChange">>]_vars

\* C13 witness: setFocusMode succeeded after setZoom(2.0) had succeeded.
C13_Witness ==
    /\ ret.op = "setFocusMode"
    /\ ret.ok
    /\ focusMode = String("continuous")
    /\ zoomLevel = Number(20)
    /\ napply = 2

\* C14: every step that runs Stream.stopStream (stop() and dispose() do)
\* ends with no stream held; with a stream held it stops that stream's
\* tracks, once, and they had not been stopped before; with none held it
\* stops nothing and changes nothing on the platform.
C14_ReleaseIdempotent ==
    [][ret'.op \in {"stop", "dispose"} =>
        /\ streamActive' = NoStream
        /\ \A i \in StreamIds : trackStops'[i] <= 1
        /\ IF streamActive = NoStream
           THEN live' = live /\ trackStops' = trackStops
           ELSE /\ streamActive.id \in live
                /\ live' = live \ {streamActive.id}
                /\ trackStops[streamActive.id] = 0
                /\ trackStops' = [trackStops EXCEPT ![streamActive.id] = 1]]_vars

\* C14 witness: stop() ran with no stream held after an earlier release had
\* stopped the tracks of an acquired stream.
C14_Witness ==
    /\ ret.op = "stop"
    /\ ret.held = NoStream
    /\ streamActive = NoStream
    /\ \E i \in StreamIds : trackStops[i] = 1

CaptureOps == {"captureImageData", "captureImage", "captureImageBitmap"}

\* C15: of two consecutive successful captureImageData calls, the second
\* returns the first's pooled ImageData object when its output dimensions and
\* scale are the first's, and another object when its scale differs.
C15_PooledBufferReuse ==
    [][(ret.op = "captureImageData" /\ ret.ok /\ ncaptures' = ncaptures + 1
            /\ ret'.op = "captureImageData" /\ ret'.ok) =>
        /\ (ret'.width = ret.width /\ ret'.height = ret.height
                /\ cachedScale' = cachedScale) =>
                ret'.imageData.id = ret.imageData.id
        /\ cachedScale' # cachedScale => ret'.imageData.id # ret.imageData.id]_vars

\* C15 witness: a call returned the second pooled object, allocated by the
\* call before it after a scale change.
C15_Witness ==
    /\ ret.op = "captureImageData"
    /\ ret.ok
    /\ ret.imageData.id = 2
    /\ ret.imageData.frame = ret.frame - 1

\* C16: every successful capture reports floor(sourceDim * s) as width and
\* height, sourceDim being the crop's size when a crop is given and the
\* frame's otherwise, s the requested scale clamped to [0.1, 2.0], 1.0 when
\* omitted; the floor is that of the product of the two numbers, computed
\* here in integer arithmetic on tenths.
C16_OutputDimensions ==
    (ret.op \in CaptureOps /\ ret.ok) =>
        LET o == ret.request
            s == IF o.scale = Undefined THEN 10
                 ELSE IF o.scale < 1 THEN 1 ELSE IF o.scale > 20 THEN 20 ELSE o.scale
            w == IF o.crop = NoCrop THEN ret.source.videoWidth ELSE o.crop.width
            h == IF o.crop = NoCrop THEN ret.source.videoHeight ELSE o.crop.height
        IN /\ ret.width = (w * s) \div 10
           /\ ret.height = (h * s) \div 10

\* C17: every successful captureImageData or captureImage call drew the frame
\* flipped about the output width exactly when its mirror option was true.
C17_FlippedIffMirror ==
    (ret.op \in {"captureImageData", "captureImage"} /\ ret.ok) =>
        /\ ret.flipped = ret.request.mirror
        /\ ret.flipped => ret.tx = ret.width

\* The source column shown at output column d of an unflipped draw: the crop
\* (or the whole frame) stretched over the output width.  A frame is its row
\* of columns 1..videoWidth.
SourceColumn(video, crop, width, d) ==
    LET x0 == IF crop = NoCrop THEN 0 ELSE crop.x
        sw == IF crop = NoCrop THEN video.videoWidth ELSE crop.width
    IN x0 + ((d - 1) * sw) \div width + 1

\* The pixel row of a draw under the transform (flip, tx).
DrawnRow(video, crop, width, flip, tx) ==
    [j \in 1..width |-> SourceColumn(video, crop, width, IF flip THEN tx + 1 - j ELSE j)]

MirrorRow(row) == [j \in 1..Len(row) |-> row[Len(row) + 1 - j]]

\* C18: the pixel row of a successful capture with mirror=true, mirrored
\* again, is the row of the unmirrored capture at the same scale and crop.
C18_MirrorInvolution ==
    (ret.op \in CaptureOps /\ ret.ok /\ ret.request.mirror) =>
        MirrorRow(DrawnRow(ret.source, ret.request.crop, ret.width, ret.flipped, ret.tx))
            = DrawnRow(ret.source, ret.request.crop, ret.width, FALSE, 0)

\* C19: a stream requestPermissions opened is never left running, while the
\* call goes on to checkPermissions or after it returned; the call never
\* throws and returns the map checkPermissions built from its two queries.
C19_RequestPermissionsLeavesNoStream ==
    /\ \A c \in 1..MaxProbes :
          (probes[c].pc # "idle" /\ probes[c].kind = "requestPermissions"
              /\ probes[c].opened # 0) =>
              /\ probes[c].opened \notin live
              /\ trackStops[probes[c].opened] = 1
    /\ ret.op = "requestPermissions" =>
          /\ ret.ok
          /\ ret.opened # 0 => (ret.opened \notin live /\ trackStops[ret.opened] = 1)
          /\ ret.permissions =
                [camera |-> IF ret.queries.camera = "throws" THEN "prompt"
                            ELSE ret.queries.camera,
                 microphone |-> IF ret.queries.microphone = "throws" THEN "prompt"
                                ELSE ret.queries.microphone]

\* C19 witness: requestPermissions returned after opening a stream, with the
\* camera granted and the microphone query failing.
C19_Witness ==
    /\ ret.op = "requestPermissions"
    /\ ret.opened # 0
    /\ ret.permissions = [camera |-> "granted", microphone |-> "prompt"]
    /\ ret.queries.microphone = "throws"
    /\ live = {}

\* C20: when getDeviceCapabilities returns or throws, the probe stream it
\* opened has no running track, and a failure is a DEVICES_ERROR WebcamError
\* that wraps the cause.
C20_ProbeStreamClosed ==
    ret.op = "getDeviceCapabilities" =>
        /\ ret.opened # 0 => ret.opened \notin live
        /\ ~ret.ok =>
              /\ IsWebcamError(ret.error)
              /\ ret.error.code = "DEVICES_ERROR"
              /\ ret.error.original = ret.cause
\* C21: checkPermissions always returns a map with a camera and a microphone
\* entry; each entry is the state its own query reported, or prompt when that
\* query threw, whatever the other query did.
C21_CheckPermissionsNeverFails ==
    ret.op = "checkPermissions" =>
        /\ ret.ok
        /\ DOMAIN ret.permissions = {"camera", "microphone"}
        /\ \A k \in {"camera", "microphone"} :
              ret.permissions[k] =
                  IF ret.queries[k] = "throws" THEN "prompt" ELSE ret.queries[k]

\* C21 witness: checkPermissions returned with the camera query failing and
\* the microphone query reporting granted.
C21_Witness ==
    /\ ret.op = "checkPermissions"
    /\ ret.queries.camera = "throws"
    /\ ret.permissions = [camera |-> "prompt", microphone |-> "granted"]
\* C22: a run of the device-change listener ends by handing onDeviceChange
\* the video devices of the new enumeration, or, when the enumeration failed,
\* by handing onError a DEVICES_ERROR WebcamError that wraps the cause; it
\* throws nothing and leaves the status, the stored error and the streams
\* as they were.
C22_DeviceChangeReported ==
    [][ret'.op = "deviceChange" =>
        /\ ~ret'.thrown
        /\ status' = status
        /\ stateError' = stateError
        /\ stateActiveStream' = stateActiveStream
        /\ streamActive' = streamActive
        /\ live' = live
        /\ IF ret'.ok
           THEN /\ cb' = <<"onDeviceChange">>
                /\ ret'.devices =
                      SelectSeq(ret'.enumerated, LAMBDA d : d.kind = "videoinput")
           ELSE /\ cb' = <<"onError">>
                /\ IsWebcamError(ret'.error)
                /\ ret'.error.code = "DEVICES_ERROR"
                /\ ret'.error.original = ret'.cause]_vars

\* C22 witness: on a ready session a listener run reported the two cameras
\* of a three-device enumeration.
C22_Witness ==
    /\ ret.op = "deviceChange"
    /\ ret.ok
    /\ Len(ret.enumerated) = 3
    /\ ret.devices = <<Camera(1), Camera(2)>>
    /\ status = "ready"
\* C23: a captureImage call on a session that fails (no video element, a
\* video element without a frame, a draw or encode failure) is thrown to the
\* caller, handed to onError, and leaves the session in status error with
\* the error stored.
C23_CaptureFailureReported ==
    (ret.op = "captureImage" /\ ret.caller.kind = "session" /\ ~ret.ok) =>
        /\ IsError(ret.error)
        /\ Count(cb, "onError") = 1
        /\ status = "error"
        /\ stateError = ret.error

\* C25: a session without a video element fails captureImage with
\* VIDEO_ELEMENT_NOT_SET and the engine is not called; with one, the engine
\* is called once with the request's mirror when the request sets it (true
\* or false) and with the session's current mirror otherwise.
C25_SessionCaptureMirror ==
    [][LET chosen(k) == IF k.request.mirror = Boolean(TRUE) THEN TRUE
                        ELSE IF k.request.mirror = Boolean(FALSE) THEN FALSE
                        ELSE styleMirror
       IN /\ (ret'.op = "captureImage" /\ ret'.caller.kind = "session"
                 /\ captures' = captures) =>
                IF ~hasVideoElement
                THEN /\ ~ret'.ok
                     /\ ret'.error.code = "VIDEO_ELEMENT_NOT_SET"
                     /\ ncaptures' = ncaptures
                     /\ UNCHANGED captureVars
                ELSE /\ ncaptures' = ncaptures + 1
                     /\ ret'.caller.passed.mirror = chosen(ret'.caller)
          /\ (ret'.op = "captureBegin"
                 /\ captures'[ret'.call].caller.kind = "session") =>
                /\ hasVideoElement
                /\ ncaptures' = ncaptures + 1
                /\ captures'[ret'.call].caller.passed.mirror
                       = chosen(captures'[ret'.call].caller)
                /\ captures'[ret'.call].request = captures'[ret'.call].caller.passed
          /\ (ret'.op = "captureImage" /\ ret'.caller.kind = "session"
                 /\ captures' # captures) =>
                /\ ncaptures' = ncaptures
                /\ ret'.ok => ret'.request = ret'.caller.passed]_vars

\* C25 witness: on a mirrored preview a capture that asked for mirror false
\* succeeded with mirror false passed to the engine.
C25_Witness ==
    /\ ret.op = "captureImage"
    /\ ret.caller.kind = "session"
    /\ ret.ok
    /\ ret.caller.sessionMirror
    /\ ret.caller.request.mirror = Boolean(FALSE)
    /\ ~ret.request.mirror
\* C24: a captureImage call that fails leaves no open object URL of its
\* own: a base64 failure comes after the URL was created and revokes it
\* before CAPTURE_FAILED is thrown, a blob failure comes before any URL is
\* created.
C24_FailedCaptureLeavesNoHandle ==
    (ret.op = "captureImage" /\ ~ret.ok) =>
        /\ ret.url # "open"
        /\ ret.error.message = "Failed to convert blob to base64" =>
              (ret.url = "revoked" /\ ret.error.code = "CAPTURE_FAILED")
        /\ ret.error.message = "Failed to convert canvas to blob" => ret.url = "none"

\* C24 witness: a captureImage call failed at base64 encoding with its
\* object URL revoked.
C24_Witness ==
    /\ ret.op = "captureImage"
    /\ ~ret.ok
    /\ ret.error.message = "Failed to convert blob to base64"
    /\ ret.error.code = "CAPTURE_FAILED"
    /\ ret.url = "revoked"

\* C26: a call of captureImageData, captureImage or captureImageBitmap on
\* an absent video element or one with readyState below 2 fails with
\* VIDEO_ELEMENT_NOT_SET and leaves the canvas, the cached dimensions, scale
\* and mirror, the pooled ImageData and the mirror canvas as they were.
C26_NotReadyLeavesPoolAlone ==
    [][(/\ ret'.op \in CaptureOps
        /\ ncaptures' = ncaptures + 1
        /\ (ret'.source = NoVideo \/ ret'.source.readyState < 2)) =>
        /\ ~ret'.ok
        /\ ret'.error.code = "VIDEO_ELEMENT_NOT_SET"
        /\ UNCHANGED <<canvas, cachedDimensions, cachedScale, cachedMirror,
                       reusableImageData, mirrorCanvas, ctxTransform>>]_vars

\* C26 witness: with a pooled buffer and a mirror canvas in place, a
\* captureImageBitmap call on a video element without a frame failed with
\* VIDEO_ELEMENT_NOT_SET.
C26_Witness ==
    /\ ret.op = "captureImageBitmap"
    /\ ~ret.ok
    /\ ret.source # NoVideo
    /\ ret.source.readyState < 2
    /\ ret.error.code = "VIDEO_ELEMENT_NOT_SET"
    /\ reusableImageData # NoImageData
    /\ mirrorCanvas # NoCanvas
\* A start has failed because the platform rejected its last acquisition
\* request.
PlatformFailedStart ==
    /\ StartReturned
    /\ ~ret.ok
    /\ ret.frame.lastRejection # NoReq
    /\ ret.frame.prefs.kind = "list" =>
          ret.frame.lastRejection.idx = Len(ret.frame.prefs.items)

\* C27: a start that fails on a platform rejection throws an error whose
\* code is the one mapped from the rejection's name (UNKNOWN_ERROR for any
\* other name) and whose originalError is the value the platform rejected
\* with.
C27_MappedCodeWithCause ==
    PlatformFailedStart =>
        /\ ret.error.code = CodeFor(ret.frame.lastRejection.value.name)
        /\ ret.error.original = ret.frame.lastRejection.value
\* C28: the snapshots handed to observers by getState() or onStateChange
\* are objects of their own: no step of the session (start, its resumptions,
\* stop, setZoom, failures, a further getState) changes what any field of a
\* snapshot already handed out reads, no two snapshots are the same object,
\* and each is consistent: status ready comes with a stream, status error
\* exactly with an error.
C28_SnapshotsNotAliased ==
    [][/\ \A i \in 1..Len(observed.held) :
            /\ observed'.held[i] = observed.held[i]
            /\ Observe(observed.held[i])' = Observe(observed.held[i])
       /\ \A i, j \in 1..Len(observed'.held) :
            observed'.held[i] = observed'.held[j] => i = j
       /\ \A i \in 1..Len(observed'.held) :
            LET fields == Observe(observed.held[i])'
            IN /\ fields.status = "ready" => fields.activeStream # NoStream
               /\ (fields.status = "error") <=> (fields.error # NoErr)]_vars

\* C28 witness: the observer holds two snapshots.  The first was taken while
\* the session was ready and not zoomed; the session has since been zoomed
\* and stopped, so the stream the first snapshot refers to is no longer
\* live and the second snapshot, taken afterwards, reads idle and zoomed.
C28_Witness ==
    /\ Len(observed.held) = 2
    /\ Observe(observed.held[1]).status = "ready"
    /\ Observe(observed.held[1]).zoomLevel = Unset
    /\ Observe(observed.held[1]).activeStream.stream.id \notin live
    /\ Observe(observed.held[2]).status = "idle"
    /\ Observe(observed.held[2]).zoomLevel # Unset
    /\ status = "idle"
\* C29: the ImageData a successful captureImageData call returns holds the
\* pixels of the frame that call drew, also when it is the pooled object
\* kept from an earlier call.
C29_BufferHoldsThisFrame ==
    (ret.op = "captureImageData" /\ ret.ok) => ret.imageData.frame = ret.frame
\* C30: a start() that completes while the session is idle, that is after a
\* stop() or dispose() made during its acquisition and with no start()
\* issued since, leaves the session idle with no stream attached and no
\* live track.
C30_StopAbandonsStart ==
    [][(status = "idle" /\ ret'.op = "start" /\ ret'.entered) =>
        /\ status' = "idle"
        /\ stateActiveStream' = NoStream
        /\ streamActive' = NoStream
        /\ live' = {}]_vars
\* C31: a setTorch, setZoom or setFocusMode call that fails leaves the zoom,
\* torch and focus values, the status, the stored error and the stream as
\* they were, invokes no callback, and throws a WebcamError.
C31_FailedControlChangesNothing ==
    [][(ret'.op \in ControlOps /\ ~ret'.ok) =>
        /\ zoomLevel' = zoomLevel
        /\ torchEnabled' = torchEnabled
        /\ focusMode' = focusMode
        /\ status' = status
        /\ stateError' = stateError
        /\ stateActiveStream' = stateActiveStream
        /\ cb' = <<>>
        /\ IsWebcamError(ret'.error)
        /\ ret'.error.code \in {"INVALID_CONFIG", "STREAM_ERROR", "CONSTRAINT_ERROR"}]_vars

\* C31 witness: on a ready session that was zoomed before, a setZoom call was
\* refused by the platform as over-constrained and the earlier zoom is kept.
C31_Witness ==
    /\ ret.op = "setZoom"
    /\ ~ret.ok
    /\ ret.outcome = "OverconstrainedError"
    /\ ret.error.code = "CONSTRAINT_ERROR"
    /\ status = "ready"
    /\ zoomLevel # Unset
    /\ zoomLevel # ret.request.value
\* C32: in every state of the session the stored error is non-null exactly
\* when the status is error, and a stored error is a WebcamError.
C32_ErrorIffStatusError ==
    /\ (status = "error") <=> (stateError # NoErr)
    /\ stateError # NoErr => IsWebcamError(stateError)

\* C32 witness: a start has just failed on a session that went through ready
\* before; the status is error and the error of that start is stored.
C32_Witness ==
    /\ ret.op = "start"
    /\ ~ret.ok
    /\ status = "error"
    /\ stateError = ret.error
    /\ stateActiveStream # NoStream
\* A start configured with a single invalid resolution, or with a non-empty
\* list in which every candidate is invalid, has returned.
InvalidResolutionStart ==
    /\ StartReturned
    /\ \/ /\ ret.frame.prefs.kind = "single"
          /\ (ret.frame.prefs.res.width = 0 \/ ret.frame.prefs.res.height = 0)
       \/ /\ ret.frame.prefs.kind = "list"
          /\ Len(ret.frame.prefs.items) > 0
          /\ \A i \in 1..Len(ret.frame.prefs.items) : ~Valid(ret.frame.prefs.items, i)

\* C33: a start whose configured resolution has a zero or missing width or
\* height, alone or as every candidate of a list, fails with an
\* INVALID_CONFIG error and makes no platform request.
C33_InvalidResolutionRejected ==
    InvalidResolutionStart =>
        /\ ~ret.ok
        /\ ret.error.code = "INVALID_CONFIG"
        /\ ret.frame.attempted = <<>>
\* C34: a start with an empty preferredResolutions list makes no platform
\* request and fails: the call rejects with a WebcamError, the status becomes
\* error with that error stored, and the stream manager holds no stream.
C34_EmptyListFails ==
    (ListStart /\ ret.frame.prefs.items = <<>>) =>
        /\ ~ret.ok
        /\ ret.frame.attempted = <<>>
        /\ IsWebcamError(ret.error)
        /\ status = "error"
        /\ stateError = ret.error
        /\ streamActive = NoStream
\* C35: once dispose() has returned, no run of the device-change listener
\* invokes onDeviceChange or onError, also not a run whose enumeration was
\* already in flight when dispose() was called.
C35_NoCallbackAfterDispose ==
    (ret.op = "deviceChange" /\ ~ret.listening) => cb = <<>>
\* C36: a start() without argument on a session that never got a
\* configuration throws INVALID_CONFIG and touches nothing: status, stored
\* error and streams are unchanged, no acquisition is begun and no callback
\* fires.
C36_NoConfigStartThrows ==
    [][(nstarts' = nstarts + 1 /\ config = NoConfig /\ config' = NoConfig) =>
        /\ ret'.op = "start"
        /\ ~ret'.ok
        /\ ret'.error.code = "INVALID_CONFIG"
        /\ IsWebcamError(ret'.error)
        /\ status' = status
        /\ stateError' = stateError
        /\ stateActiveStream' = stateActiveStream
        /\ calls' = calls
        /\ UNCHANGED <<streamActive, live, nextStream>>
        /\ cb' = <<>>]_vars

\* C36 witness: start() has thrown INVALID_CONFIG on a session without
\* configuration, which is still idle.
C36_Witness ==
    /\ ret.op = "start"
    /\ ~ret.entered
    /\ ret.error.code = "INVALID_CONFIG"
    /\ config = NoConfig
    /\ status = "idle"
    /\ cb = <<>>
\* C37: callbacks fire in a fixed order.  The step that begins a start emits
\* onStateChange alone, in status initializing; the steps in which the call
\* is resumed inside acquisition emit nothing; the step that completes it
\* emits onStateChange (ready) then onStreamStart on success, and onError
\* then onStateChange (error), without onStreamStart, on failure; each call
\* has one beginning and one completion.  Every stop() of a configured
\* session emits onStateChange (idle) then onStreamStop.
C37_CallbackOrder ==
    [][/\ ret'.op = "startBegin" =>
            /\ cb' = <<"onStateChange">>
            /\ status' = "initializing"
            /\ calls[ret'.call].pc = "idle"
            /\ calls'[ret'.call].pc # "idle"
       /\ ret'.op \in {"buildConstraints", "getUserMedia"} =>
            /\ cb' = <<>>
            /\ status' = status
            /\ calls[ret'.call].pc # "idle"
            /\ calls'[ret'.call].pc # "idle"
       /\ (ret'.op = "start" /\ ret'.entered) =>
            /\ calls[ret'.call].pc # "idle"
            /\ calls'[ret'.call].pc = "idle"
            /\ IF ret'.ok
               THEN cb' = <<"onStateChange", "onStreamStart">> /\ status' = "ready"
               ELSE cb' = <<"onError", "onStateChange">> /\ status' = "error"
       /\ (ret'.op = "stop" /\ config # NoConfig) =>
            /\ cb' = <<"onStateChange", "onStreamStop">>
            /\ status' = "idle"
       /\ \A c \in 1..CallSlots :
            (calls[c].pc = "idle") # (calls'[c].pc = "idle") =>
                ret'.op \in {"startBegin", "start"} /\ ret'.call = c]_vars

\* C37 witness: a start has failed on a session that an earlier start had
\* made ready, firing onError before onStateChange.
C37_Witness ==
    /\ ret.op = "start"
    /\ ~ret.ok
    /\ ret.call > 1
    /\ cb = <<"onError", "onStateChange">>
    /\ status = "error"
    /\ stateActiveStream # NoStream
\* C38: when a start() has succeeded on a session with a video element, the
\* element's preview mirror is on exactly when the merged configuration's
\* enableMirror is true.
C38_PreviewMirrorFollowsConfig ==
    (StartReturned /\ ret.ok /\ hasVideoElement) =>
        (styleMirror <=> config.enableMirror)
\* C39: a failing acquisition leaves the stream manager's held stream as it
\* is.  No step of a start that fails (the begin of the call, a resumption
\* after _buildConstraints that issues no request or issues the next one, a
\* rejected platform request, the return of the failed start) replaces or
\* clears the held stream, stops a track or opens a stream.
C39_FailedAcquireKeepsHeldStream ==
    [][(\/ ret'.op = "startBegin"
        \/ ret'.op = "buildConstraints"
        \/ ret'.op = "getUserMedia" /\ ret'.outcome # "ok"
        \/ ret'.op = "start" /\ ret'.entered /\ ret'.frame.pc = "rejected") =>
        /\ streamActive' = streamActive
        /\ live' = live
        /\ trackStops' = trackStops
        /\ nextStream' = nextStream]_vars

\* C39 witness: while a stream from an earlier start is held and live, a
\* start with a two-element list has failed after the platform rejected both
\* candidates; the held stream is still held, live and never stopped.
C39_Witness ==
    /\ ListStart
    /\ ~ret.ok
    /\ ret.frame.attempted = <<1, 2>>
    /\ streamActive # NoStream
    /\ streamActive.id \in live
    /\ trackStops[streamActive.id] = 0
    /\ Cardinality(live) = 1
\* C40: provided every platform request settles, every start() call
\* settles and the session does not stay in initializing: a call in flight
\* eventually returns, and from initializing the status eventually becomes
\* ready, error or idle.
C40_StartSettles ==
    /\ (status = "initializing") ~> (status \in {"ready", "error", "idle"})
    /\ \A c \in 1..CallSlots : (calls[c].pc # "idle") ~> (calls[c].pc = "idle")

\* C40 witness: a start with a two-element list has become ready on its
\* second candidate after the platform refused the first.
C40_Witness ==
    /\ ListStart
    /\ ret.ok
    /\ ret.frame.attempted = <<1, 2>>
    /\ status = "ready"
====
